---- MODULE Spec2Model ----
(***************************************************************************)
(* Change tracking and background synchronisation of the ai-coder          *)
(* extension: FileTracker (debounced classification of file events),       *)
(* FileMetadataStore (persisted records and the workspace's last sync      *)
(* time) and CodeIndexing (the background sync coordinator).               *)
(*                                                                         *)
(* Every asynchronous function is cut at the awaits that wait for real     *)
(* I/O (file read, token lookup, upload, persisted-store update); the code *)
(* between two such awaits runs on the single event loop and is one        *)
(* atomic action. checkFile is also cut at its await of                    *)
(* getWorkspaceLastSyncTime, which lies between its read of a file's       *)
(* record and its write of it. SpecStore is the store alone, over the      *)
(* memento it keeps its arrays in.                                         *)
(*                                                                         *)
(* GitignoreHandler and ImportResolver are pure functions of strings,      *)
(* which are sequences of characters here. SpecMatch applies               *)
(* matchesPattern to every path and pattern of the bounds, SpecIgnore      *)
(* loads a .gitignore and asks isIgnored, SpecContext applies the import   *)
(* resolver and getCodeContextForLLM to every project of the bounds.       *)
(***************************************************************************)
EXTENDS Integers, FiniteSets, Sequences, Bags, TLC

\* ---------------------------------------------------------------- constants
DEBOUNCE_DELAY == 1000
MTIME_TOLERANCE == 1000
BATCH_SIZE == 50
BACKGROUND_SYNC_DEBOUNCE == 3000
SYNC_RETRY_DELAY == 5000
MAX_SYNC_RETRIES == 3

\* ------------------------------------------------------------------- bounds
MaxWrites == 2
MaxTicks == 1

\* The tracked source files of the single workspace folder.
Paths == {"a", "b"}
\* The files that are edited while the extension runs; the others are only
\* indexed and synchronised.
Edited == {"a"}
\* Text contents a file can have.
Contents == {"v1", "v2"}
\* Workspace folder names, as sequences of characters: no folder (''), "w "
\* and "w%20", the text the second one is encoded to.
Workspaces == { <<>>, <<"w", " ">>, <<"w", "%", "2", "0">> }
\* The name of the workspace folder that holds Paths.
WorkspaceFolder == <<"w", " ">>
\* Content of a path that does not exist on disk.
Absent == "absent"
\* The clock advances in steps of half the mtime tolerance, so that mtime
\* differences both within and beyond the tolerance occur.
ClockStep == MTIME_TOLERANCE \div 2
StartTime == MTIME_TOLERANCE
EndTime == StartTime + MaxTicks * ClockStep

NoPath == "-"
\* "undefined" for a FileMetadata value; lastSynced = 0 is the absent
\* (falsy) optional timestamp.
NoMeta == [path |-> NoPath, md5Hash |-> <<>>, lastModified |-> 0, lastSynced |-> 0]
FileMetadata(p, h, mt, ls) == [path |-> p, md5Hash |-> h, lastModified |-> mt, lastSynced |-> ls]

\* Messages of the errors a sync attempt can end with, as the set of words
\* the message contains (String.includes looks for a word of the message).
UploadErrors == { {"network", "error"}, {"server", "error"}, {"timeout"},
                  {"HTTP", "error", "401"}, {"Upload", "failed"} }
TokenError == {"Token", "info", "not", "found"}
Includes(message, word) == word \in message

VARIABLES
    now,            \* Date.now() / the file system clock
    fsContent,      \* path -> content on disk (Absent when the file does not exist)
    fsMtime,        \* path -> stats.mtimeMs
    writes,         \* number of file system modifications so far
    events,         \* paths with a change/save event not yet delivered
    deleteEvents,   \* paths with a delete event not yet delivered
    phase,          \* "init" | "indexing" | "watching" | "disposed"
    fileHashes,     \* FileTracker.fileHashes
    changedFiles,   \* FileTracker.changedFiles (the pending change set)
    pendingChecks,  \* FileTracker.pendingChecks: path has a timeout handle
    liveTimers,     \* number of debounce timeouts of a path not yet fired or cleared
    processingFiles,\* FileTracker.processingFiles
    checks,         \* bag of checkFile invocations in flight
    stored,         \* globalState[fileMetadata_<ws>]: path -> record
    wsLastSync,     \* globalState[workspaceMetadata_<ws>].lastSync
    isSyncing,      \* CodeIndexing.isSyncing
    lastSessionId,  \* CodeIndexing.lastSessionId is set
    syncRetryCount, \* CodeIndexing.syncRetryCount
    retryTimers,    \* number of retry timeouts not yet fired
    syncs,          \* bag of syncChangedFilesInBackground invocations in flight
    queued,         \* paths a classification queued (needsSync) since the last drain began
    last,           \* the step taken last: operation, path, returned batch
    globalState,    \* extensionContext.globalState: storage key -> value
    storeCall,      \* the FileMetadataStore call in progress, or Idle
    saved,          \* workspace -> path -> the record saved last, NoRecord once deleted or cleared
    project,        \* the files on disk and the request getCodeContextForLLM is called with
    context,        \* the CodeFileContext getCodeContextForLLM returned
    normalizedPath, \* the relative path matchesPattern / isIgnored is called with
    pattern,        \* the pattern matchesPattern is called with
    matched,        \* what matchesPattern returned
    gitignoreContent,  \* the text of the workspace's .gitignore
    gitignorePatterns, \* GitignoreHandler.gitignorePatterns of the workspace
    ignored,        \* what isIgnored returned
    handlerPc,      \* position of the GitignoreHandler calls: "idle" | "new" | "loaded" | "done"
    workspaceFolders, \* vscode.workspace.workspaceFolders: the names of the open folders
    arrays,         \* the arrays of records the store calls work on, by the order of their creation
    held,           \* the array globalState holds under the workspace's key (0: the key is missing)
    calls,          \* bag of FileMetadataStore calls in flight that may overlap
    gitignoreFile,  \* the .gitignore of the workspace root on disk
    gitignoreCache, \* GitignoreHandler.gitignoreCache of the workspace
    gitignoreEvents, \* events of the .gitignore watcher that are not delivered yet
    gitignoreLoads  \* bag of loadGitignoreForWorkspace calls in flight

vars == << now, fsContent, fsMtime, writes, events, deleteEvents, phase, fileHashes, changedFiles,
           pendingChecks, liveTimers, processingFiles, checks, stored,
           wsLastSync, isSyncing, lastSessionId, syncRetryCount, retryTimers,
           syncs, queued, last, globalState, storeCall, saved, project, context,
           normalizedPath, pattern, matched, gitignoreContent, gitignorePatterns, ignored,
           handlerPc, workspaceFolders, arrays, held, calls,
           gitignoreFile, gitignoreCache, gitignoreEvents, gitignoreLoads >>

fsVars == << fsContent, fsMtime, writes >>
eventVars == << events, deleteEvents >>
trackerVars == << fileHashes, changedFiles, pendingChecks, liveTimers,
                  processingFiles, checks, queued >>
storeVars == << stored, wsLastSync >>
syncVars == << isSyncing, lastSessionId, syncRetryCount, retryTimers, syncs >>
mementoVars == << globalState, storeCall, saved >>
resolverVars == << project, context >>
gitignoreVars == << normalizedPath, pattern, matched, gitignoreContent, gitignorePatterns, ignored,
                   handlerPc >>
overlapVars == << arrays, held, calls >>
cacheVars == << gitignoreFile, gitignoreCache, gitignoreEvents, gitignoreLoads >>
workspaceVars == << workspaceFolders, overlapVars, cacheVars >>
contextVars == << resolverVars, gitignoreVars, workspaceVars >>

\* A record of the step taken last: the operation, the path it was about, the
\* batch it returned or worked on, the paths that were pending before it, and
\* the batch's syncStartTime.
Step(op, p, batch, pending, time) ==
    [op |-> op, path |-> p, batch |-> batch, pending |-> pending, time |-> time]
\* A record of a step with further information about it: the state the
\* handler found, or its argument.
StepInfo(op, p, batch, info) ==
    [op |-> op, path |-> p, batch |-> batch, pending |-> {}, time |-> 0, info |-> info]
\* The value of last after a step no property refers to.
Other == Step("-", NoPath, {}, {}, 0)

Abs(x) == IF x < 0 THEN -x ELSE x

\* -------------------------------------------------------------- FileTracker
calculateMD5(content) == <<"md5", content>>

\* fs.statSync fails for a missing file; the modelled paths are regular
\* source files that no ignore pattern excludes.
shouldSkipFile(p) == fsContent[p] = Absent

\* hasChanged with the tolerance compared by >= instead of >.
hasChangedAtTolerance(existingMetadata, currentHash, currentMtime) ==
    \/ existingMetadata = NoMeta
    \/ currentHash # existingMetadata.md5Hash
    \/ Abs(currentMtime - existingMetadata.lastModified) >= MTIME_TOLERANCE

hasChanged(existingMetadata, currentHash, currentMtime) ==
    \/ existingMetadata = NoMeta
    \/ currentHash # existingMetadata.md5Hash
    \/ Abs(currentMtime - existingMetadata.lastModified) > MTIME_TOLERANCE

needsSync(existingMetadata, changed, currentMtime, workspaceLastSync) ==
    /\ changed
    /\ \/ existingMetadata.lastSynced = 0
       \/ existingMetadata.lastSynced < currentMtime
       \/ workspaceLastSync < currentMtime

\* FileTracker.getWorkspaceFolder: the name of the open folder that holds
\* the path, '' when there is none.
getWorkspaceFolder(filePath) ==
    IF workspaceFolders = {} THEN <<>> ELSE CHOOSE folder \in workspaceFolders : TRUE

InFlight(p) == { c \in BagToSet(checks) : c.path = p }

\* p is tracked and was never synced, yet it is neither pending nor in the
\* batch of an attempt in flight nor being classified: its batch failed or
\* was dropped.
GivenUp(p) ==
    /\ fileHashes[p] # NoMeta
    /\ fileHashes[p].lastSynced = 0
    /\ changedFiles[p] = NoMeta
    /\ InFlight(p) = {}
    /\ \A s \in BagToSet(syncs) : p \notin s.batch

\* A checkFile invocation; givenUp notes whether the file was given up when
\* the invocation began.
NewCheck(p, origin) ==
    [path |-> p, origin |-> origin, pc |-> "read", existingMetadata |-> NoMeta,
     metadata |-> NoMeta, needsSync |-> FALSE, givenUp |-> GivenUp(p),
     workspaceFolder |-> <<>>]
InFlightCount(p) ==
    LET S == InFlight(p)
        RECURSIVE Sum(_)
        Sum(T) == IF T = {} THEN 0
                  ELSE LET c == CHOOSE x \in T : TRUE
                       IN  checks[c] + Sum(T \ {c})
    IN  Sum(S)

\* A checkFile is at its await of getWorkspaceLastSyncTime, which completes
\* without I/O: until it goes on, only continuations of completed operations
\* run; timer callbacks, file events, calls of the API and changes of the
\* environment are tasks of their own and come before or after.
Yielding == \E c \in BagToSet(checks) : c.pc = "compare"

\* The guard at the head of checkFile; processing is processingFiles as the
\* caller left it.
checkFileGuard(processing, p) == ~(p \in processing) /\ ~shouldSkipFile(p)

\* checkFile up to its first await: guard, then processingFiles.add.
checkFileStart(processing, p, origin) ==
    IF checkFileGuard(processing, p)
    THEN /\ processingFiles' = processing \cup {p}
         /\ checks' = checks (+) SetToBag({NewCheck(p, origin)})
    ELSE /\ processingFiles' = processing
         /\ checks' = checks

\* The handle pendingChecks holds for p is dropped without clearTimeout.
clearExistingMissing(p) == liveTimers[p]

\* clearTimeout of the handle pendingChecks holds for p, if any.
clearExisting(p) == IF pendingChecks[p] THEN liveTimers[p] - 1 ELSE liveTimers[p]

\* The paths that have an entry in the pending change set.
pendingPaths == { p \in Paths : changedFiles[p] # NoMeta }

\* checkForChanges without its filter: every pending entry is returned.
filesToSyncUnfiltered == { p \in Paths : changedFiles[p] # NoMeta }

\* FileTracker.checkForChanges: the entries returned ...
filesToSync ==
    { p \in Paths :
        /\ changedFiles[p] # NoMeta
        /\ \/ fileHashes[p].lastSynced = 0
           \/ fileHashes[p].lastSynced < changedFiles[p].lastModified
           \/ fileHashes[p].md5Hash # changedFiles[p].md5Hash }
\* checkForChanges that never clears the pending change set.
changedFilesKept == changedFiles

\* ... and the pending change set it leaves behind.
changedFilesAfterCheck ==
    IF filesToSync # {} THEN [p \in Paths |-> NoMeta] ELSE changedFiles

\* ------------------------------------------------------------- environment
\* Date.now() and the file system clock advance.
ClockTick ==
    /\ ~Yielding
    /\ now < EndTime
    /\ now' = now + ClockStep
    /\ UNCHANGED << fsVars, eventVars, phase, trackerVars, storeVars, syncVars >>
    /\ last' = Other
    /\ UNCHANGED << mementoVars, contextVars >>

\* The uploads that are running when content is written to p can read it.
readableByUploads(p, content) ==
    BagOfAll(LAMBDA s : IF s.pc = "upload" /\ p \in s.batch
                        THEN [s EXCEPT !.uploaded[p] = @ \cup {content}]
                        ELSE s,
             syncs)

\* The user (or a tool) writes new content to p, creating it if needed.
EnvWrite(p, content) ==
    /\ ~Yielding
    /\ writes < MaxWrites
    /\ phase = "watching"
    /\ content # fsContent[p]
    /\ fsContent' = [fsContent EXCEPT ![p] = content]
    /\ fsMtime' = [fsMtime EXCEPT ![p] = now]
    /\ writes' = writes + 1
    /\ events' = events \cup {p}
    /\ syncs' = readableByUploads(p, content)
    /\ UNCHANGED << now, deleteEvents, phase, trackerVars, storeVars, isSyncing,
                    lastSessionId, syncRetryCount, retryTimers >>
    /\ last' = Other
    /\ UNCHANGED << mementoVars, contextVars >>

\* p is rewritten with the same content: only its mtime changes.
EnvTouch(p) ==
    /\ ~Yielding
    /\ writes < MaxWrites
    /\ phase = "watching"
    /\ fsContent[p] # Absent
    /\ fsMtime[p] # now
    /\ fsMtime' = [fsMtime EXCEPT ![p] = now]
    /\ writes' = writes + 1
    /\ events' = events \cup {p}
    /\ UNCHANGED << now, fsContent, deleteEvents, phase, trackerVars, storeVars,
                    syncVars >>
    /\ last' = Other
    /\ UNCHANGED << mementoVars, contextVars >>

\* p is removed from disk.
EnvDelete(p) ==
    /\ ~Yielding
    /\ writes < MaxWrites
    /\ fsContent[p] # Absent
    /\ phase = "watching"
    /\ fsContent' = [fsContent EXCEPT ![p] = Absent]
    /\ fsMtime' = [fsMtime EXCEPT ![p] = 0]
    /\ writes' = writes + 1
    /\ events' = events \ {p}
    /\ deleteEvents' = deleteEvents \cup {p}
    /\ UNCHANGED << now, phase, trackerVars, storeVars, syncVars >>
    /\ last' = Other
    /\ UNCHANGED << mementoVars, contextVars >>

\* The workspace folder is removed from the window while the extension runs
\* (the extension listens to no onDidChangeWorkspaceFolders event).
RemoveWorkspaceFolder ==
    /\ ~Yielding
    /\ phase = "watching"
    /\ workspaceFolders # {}
    /\ workspaceFolders' = {}
    /\ last' = Other
    /\ UNCHANGED << now, fsVars, eventVars, phase, trackerVars, storeVars, syncVars >>
    /\ UNCHANGED << mementoVars, resolverVars, gitignoreVars, overlapVars, cacheVars >>

\* ---------------------------------------------------- FileTracker: startup
\* FileTracker.initialize: loadStoredMetadata, then indexWorkspace starts
\* checkFile for every file found (one Promise.all batch of BATCH_SIZE).
IndexWorkspace ==
    /\ ~Yielding
    /\ phase = "init"
    /\ Cardinality(Paths) <= BATCH_SIZE
    /\ phase' = "indexing"
    /\ fileHashes' = stored
    /\ LET found == { p \in Paths : checkFileGuard(processingFiles, p) }
       IN  /\ processingFiles' = processingFiles \cup found
           /\ checks' = checks (+) SetToBag({ NewCheck(p, "index") : p \in found })
    /\ last' = Other
    /\ UNCHANGED << now, fsVars, eventVars, changedFiles, pendingChecks, liveTimers, queued,
                    storeVars, syncVars >>
    /\ UNCHANGED << mementoVars, contextVars >>

\* initialize continues after indexWorkspace: registerFileWatchers.
RegisterFileWatchers ==
    /\ phase = "indexing"
    /\ \A c \in BagToSet(checks) : c.origin # "index"
    /\ phase' = "watching"
    /\ last' = Other
    /\ UNCHANGED << now, fsVars, eventVars, trackerVars, storeVars, syncVars >>
    /\ UNCHANGED << mementoVars, contextVars >>

\* ----------------------------------------------- FileTracker: file events
\* scheduleFileCheck: clear the existing timeout, set a new one.
scheduleFileCheck(p) ==
    /\ liveTimers' = [liveTimers EXCEPT ![p] = clearExisting(p) + 1]
    /\ pendingChecks' = [pendingChecks EXCEPT ![p] = TRUE]

\* onDidChangeTextDocument, watcher onDidCreate and onDidChange.
OnDidChange(p) ==
    /\ ~Yielding
    /\ phase = "watching"
    /\ p \in events
    /\ events' = events \ {p}
    /\ UNCHANGED deleteEvents
    /\ ~shouldSkipFile(p)
    /\ scheduleFileCheck(p)
    /\ last' = Other
    /\ UNCHANGED << now, fsVars, phase, fileHashes, changedFiles, processingFiles,
                    checks, queued, storeVars, syncVars >>
    /\ UNCHANGED << mementoVars, contextVars >>

\* The callback of the timeout set by scheduleFileCheck.
DebounceFire(p) ==
    /\ ~Yielding
    /\ liveTimers[p] > 0
    /\ liveTimers' = [liveTimers EXCEPT ![p] = @ - 1]
    /\ pendingChecks' = [pendingChecks EXCEPT ![p] = FALSE]
    /\ IF ~(p \in processingFiles)
       THEN checkFileStart(processingFiles, p, "timer")
       ELSE UNCHANGED << processingFiles, checks >>
    /\ last' = Step("debounceFire", p, {}, {}, 0)
    /\ UNCHANGED << now, fsVars, eventVars, phase, fileHashes, changedFiles, queued,
                    storeVars, syncVars >>
    /\ UNCHANGED << mementoVars, contextVars >>

\* onDidSaveTextDocument: clear the pending timeout, remove p from
\* processingFiles, check the file at once.
OnDidSave(p) ==
    /\ ~Yielding
    /\ phase = "watching"
    /\ p \in events
    /\ events' = events \ {p}
    /\ UNCHANGED deleteEvents
    /\ ~shouldSkipFile(p)
    /\ liveTimers' = [liveTimers EXCEPT ![p] = clearExisting(p)]
    /\ pendingChecks' = [pendingChecks EXCEPT ![p] = FALSE]
    /\ checkFileStart(processingFiles \ {p}, p, "save")
    /\ last' = StepInfo("onDidSave", p, {}, [hadTimer |-> pendingChecks[p]])
    /\ UNCHANGED << now, fsVars, phase, fileHashes, changedFiles, queued,
                    storeVars, syncVars >>
    /\ UNCHANGED << mementoVars, contextVars >>

\* handleFileDelete: the records of p in memory, in the pending change set
\* and (deleteFileMetadata) in the store are removed.
handleFileDelete(p) ==
    /\ fileHashes' = [fileHashes EXCEPT ![p] = NoMeta]
    /\ changedFiles' = [changedFiles EXCEPT ![p] = NoMeta]
    /\ stored' = IF getWorkspaceFolder(p) # <<>>
                 THEN [stored EXCEPT ![p] = NoMeta]
                 ELSE stored
    /\ queued' = queued \ {p}

\* watcher onDidDelete: handleFileDelete unless shouldSkipFile(p), whose
\* statSync fails when nothing exists at p.
OnDidDelete(p) ==
    /\ ~Yielding
    /\ phase = "watching"
    /\ p \in deleteEvents
    /\ deleteEvents' = deleteEvents \ {p}
    /\ UNCHANGED events
    /\ IF ~shouldSkipFile(p)
       THEN handleFileDelete(p)
       ELSE UNCHANGED << fileHashes, changedFiles, stored, queued >>
    /\ last' = StepInfo("onDidDelete", p, {}, [tracked |-> fileHashes[p] # NoMeta])
    /\ UNCHANGED << now, fsVars, phase, pendingChecks, liveTimers, processingFiles,
                    checks, wsLastSync, syncVars >>
    /\ UNCHANGED << mementoVars, contextVars >>

\* ---------------------------------------------- FileTracker: classification
Replace(bag, old, new) == (bag (-) SetToBag({old})) (+) SetToBag({new})

\* checkFile from the comparison on: compare with the record read; when
\* changed, updateFileMetadata (fileHashes, changedFiles and the first
\* update of saveFileMetadata, under the key of the path's workspace
\* folder), up to the await of that update. old is the invocation as the bag
\* of invocations holds it.
compare(old, c) ==
    /\ LET p == c.path
           currentHash == c.metadata.md5Hash
           currentMtime == c.metadata.lastModified
           existingMetadata == c.existingMetadata
           workspaceFolder == getWorkspaceFolder(p)
           workspaceLastSync == IF workspaceFolder # <<>> THEN wsLastSync ELSE 0
           changed == hasChanged(existingMetadata, currentHash, currentMtime)
           sync == needsSync(existingMetadata, changed, currentMtime, workspaceLastSync)
           metadata == c.metadata
       IN  IF changed
           THEN /\ fileHashes' = [fileHashes EXCEPT ![p] = metadata]
                /\ changedFiles' = [changedFiles EXCEPT ![p] = metadata]
                /\ stored' = IF workspaceFolder # <<>>
                             THEN [stored EXCEPT ![p] = metadata]
                             ELSE stored
                /\ checks' = Replace(checks, old,
                                [c EXCEPT !.pc = "save", !.needsSync = sync,
                                          !.workspaceFolder = workspaceFolder])
                /\ queued' = IF sync THEN queued \cup {p} ELSE queued
                /\ UNCHANGED processingFiles
           ELSE /\ checks' = checks (-) SetToBag({old})
                /\ processingFiles' = processingFiles \ {p}
                /\ UNCHANGED << fileHashes, changedFiles, stored, queued >>
    /\ last' = StepInfo("classify", c.path, {},
                        [existingMetadata |-> c.existingMetadata, metadata |-> c.metadata,
                         origin |-> c.origin, givenUp |-> c.givenUp])

\* checkFile after the file read and stat: hash and mtime are computed and
\* the in-memory record is read (existingMetadata), up to the await of
\* getWorkspaceLastSyncTime. That await completes without I/O, but it lets
\* the continuations that are ready run before checkFile goes on, and the
\* record read before it is written back after it. For a path of no
\* workspace folder there is no such await and checkFile goes on at once.
ReadDone(c) ==
    /\ c \in BagToSet(checks)
    /\ c.pc = "read"
    /\ fsContent[c.path] # Absent
    /\ LET p == c.path
           currentHash == calculateMD5(fsContent[p])
           currentMtime == fsMtime[p]
           existingMetadata == fileHashes[p]
           read == [c EXCEPT !.pc = "compare", !.existingMetadata = existingMetadata,
                             !.metadata = FileMetadata(p, currentHash, currentMtime,
                                                       existingMetadata.lastSynced)]
       IN  IF getWorkspaceFolder(p) # <<>>
           THEN /\ checks' = Replace(checks, c, read)
                /\ last' = Other
                /\ UNCHANGED << fileHashes, changedFiles, processingFiles, queued, stored >>
           ELSE compare(c, read)
    /\ UNCHANGED << now, fsVars, eventVars, phase, pendingChecks, liveTimers, wsLastSync,
                    syncVars >>
    /\ UNCHANGED << mementoVars, contextVars >>

\* checkFile after getWorkspaceLastSyncTime.
Classify(c) ==
    /\ c \in BagToSet(checks)
    /\ c.pc = "compare"
    /\ compare(c, c)
    /\ UNCHANGED << now, fsVars, eventVars, phase, pendingChecks, liveTimers, wsLastSync, syncVars >>
    /\ UNCHANGED << mementoVars, contextVars >>

\* checkFile without its finally block: the path stays in processingFiles.
processingFilesKept(p) == processingFiles

\* The finally block of checkFile.
processingFilesAfterCheck(p) == processingFiles \ {p}

\* What checkFile returns from its catch block.
FailedResult == [changed |-> FALSE, metadata |-> NoMeta, error |-> TRUE]

\* The file read or the stat of checkFile fails: catch, then finally.
ReadFail(c) ==
    /\ c \in BagToSet(checks)
    /\ c.pc = "read"
    /\ fsContent[c.path] = Absent
    /\ checks' = checks (-) SetToBag({c})
    /\ processingFiles' = processingFilesAfterCheck(c.path)
    /\ LET result == FailedResult
       IN  /\ changedFiles' = IF result.changed /\ result.metadata # NoMeta
                                THEN [changedFiles EXCEPT ![c.path] = result.metadata]
                                ELSE changedFiles
           /\ last' = StepInfo("readFail", c.path, {}, result)
    /\ UNCHANGED << now, fsVars, eventVars, phase, fileHashes, pendingChecks,
                    liveTimers, queued, storeVars, syncVars >>
    /\ UNCHANGED << mementoVars, contextVars >>

\* saveFileMetadata completes (lastSync = Date.now() for the workspace
\* folder it was called with), checkFile queues the file if it needs sync,
\* its finally block runs and the caller stores the returned metadata again.
ClassifySaved(c) ==
    /\ c \in BagToSet(checks)
    /\ c.pc = "save"
    /\ wsLastSync' = IF c.workspaceFolder # <<>> THEN now ELSE wsLastSync
    /\ changedFiles' = IF c.needsSync
                       THEN [changedFiles EXCEPT ![c.path] = c.metadata]
                       ELSE changedFiles
    /\ UNCHANGED queued
    /\ processingFiles' = processingFilesAfterCheck(c.path)
    /\ checks' = checks (-) SetToBag({c})
    /\ last' = Other
    /\ UNCHANGED << now, fsVars, eventVars, phase, fileHashes, pendingChecks, liveTimers,
                    stored, syncVars >>
    /\ UNCHANGED << mementoVars, contextVars >>

\* ------------------------------------------------------------ CodeIndexing
\* shouldRetry that takes every message with the word "error" for retryable.
shouldRetryAnyError(message) ==
    \/ Includes(message, "error")
    \/ Includes(message, "timeout")

shouldRetry(message) ==
    \/ Includes(message, "network")
    \/ Includes(message, "server")
    \/ Includes(message, "timeout")

\* syncChangedFilesInBackground without the isSyncing guard.
syncGuardMissing == TRUE

\* The guard at the head of syncChangedFilesInBackground.
syncGuard == ~isSyncing

\* A syncChangedFilesInBackground invocation; uploaded notes, for each file
\* of the batch, the contents the file had on disk while uploadFiles ran
\* (uploadFiles is given the paths and reads the files).
NewSync(batch) ==
    [pc |-> "token", batch |-> batch, remaining |-> batch, syncStartTime |-> 0,
     current |-> NoPath, uploaded |-> [p \in Paths |-> {}]]

\* syncChangedFilesInBackground up to the await of getTokenInfo.
syncChangedFilesInBackground(trigger) ==
    IF ~syncGuard
    THEN /\ last' = Step(trigger \o "Skipped", NoPath, {}, {}, 0)
         /\ UNCHANGED << changedFiles, queued, isSyncing, syncRetryCount, syncs >>
    ELSE LET batch == filesToSync
         IN  /\ changedFiles' = changedFilesAfterCheck
             /\ queued' = {}
             /\ IF batch = {}
                THEN /\ syncRetryCount' = 0
                     /\ isSyncing' = FALSE
                     /\ syncs' = syncs
                ELSE /\ isSyncing' = TRUE
                     /\ syncs' = syncs (+) SetToBag({NewSync(batch)})
                     /\ UNCHANGED syncRetryCount
             /\ last' = Step(trigger \o "Drain", NoPath, batch, pendingPaths, 0)

setSessionId ==
    /\ ~Yielding
    /\ phase # "disposed"
    /\ ~lastSessionId
    /\ lastSessionId' = TRUE
    /\ last' = Other
    /\ UNCHANGED << now, fsVars, eventVars, phase, trackerVars, storeVars, isSyncing,
                    syncRetryCount, retryTimers, syncs >>
    /\ UNCHANGED << mementoVars, contextVars >>

\* The interval callback without the test of lastSessionId.
BackgroundTickAnySession ==
    /\ ~Yielding
    /\ phase # "disposed"
    /\ IF isSyncing
       THEN /\ last' = Step("tickSkipped", NoPath, {}, {}, 0)
            /\ UNCHANGED << changedFiles, queued, isSyncing, syncRetryCount, syncs >>
       ELSE syncChangedFilesInBackground("tick")
    /\ UNCHANGED << now, fsVars, eventVars, phase, fileHashes, pendingChecks, liveTimers,
                    processingFiles, checks, storeVars, lastSessionId, retryTimers >>
    /\ UNCHANGED << mementoVars, contextVars >>

\* The callback of the interval set by startBackgroundSync.
BackgroundTick ==
    /\ ~Yielding
    /\ phase # "disposed"
    /\ IF isSyncing \/ ~lastSessionId
       THEN /\ last' = Step("tickSkipped", NoPath, {}, {}, 0)
            /\ UNCHANGED << changedFiles, queued, isSyncing, syncRetryCount, syncs >>
       ELSE syncChangedFilesInBackground("tick")
    /\ UNCHANGED << now, fsVars, eventVars, phase, fileHashes, pendingChecks, liveTimers,
                    processingFiles, checks, storeVars, lastSessionId, retryTimers >>
    /\ UNCHANGED << mementoVars, contextVars >>

syncFilesForSession ==
    /\ ~Yielding
    /\ phase # "disposed"
    /\ syncChangedFilesInBackground("syncNow")
    /\ UNCHANGED << now, fsVars, eventVars, phase, fileHashes, pendingChecks, liveTimers,
                    processingFiles, checks, storeVars, lastSessionId, retryTimers >>
    /\ UNCHANGED << mementoVars, contextVars >>

\* The callback of the timeout set after a retryable failure.
RetryFire ==
    /\ ~Yielding
    /\ retryTimers > 0
    /\ retryTimers' = retryTimers - 1
    /\ syncChangedFilesInBackground("retry")
    /\ UNCHANGED << now, fsVars, eventVars, phase, fileHashes, pendingChecks, liveTimers,
                    processingFiles, checks, storeVars, lastSessionId >>
    /\ UNCHANGED << mementoVars, contextVars >>

\* The catch and finally blocks of syncChangedFilesInBackground.
SyncFailed(s, message) ==
    /\ IF shouldRetry(message) /\ syncRetryCount < MAX_SYNC_RETRIES
       THEN /\ syncRetryCount' = syncRetryCount + 1
            /\ retryTimers' = retryTimers + 1
       ELSE /\ syncRetryCount' = 0
            /\ retryTimers' = retryTimers
    /\ isSyncing' = FALSE
    /\ syncs' = syncs (-) SetToBag({s})
    /\ last' = StepInfo("syncFailed", NoPath, s.batch,
                        [message |-> message, retries |-> syncRetryCount])

\* getTokenInfo returns token info: syncStartTime is taken and uploadFiles
\* is called.
TokenFound(s) ==
    /\ s \in BagToSet(syncs)
    /\ s.pc = "token"
    /\ syncs' = Replace(syncs, s,
                    [s EXCEPT !.pc = "upload", !.syncStartTime = now,
                              !.uploaded = [p \in Paths |->
                                               IF p \in s.batch /\ fsContent[p] # Absent
                                               THEN {fsContent[p]} ELSE {}]])
    /\ last' = Other
    /\ UNCHANGED << now, fsVars, eventVars, phase, trackerVars, storeVars, isSyncing,
                    lastSessionId, syncRetryCount, retryTimers >>
    /\ UNCHANGED << mementoVars, contextVars >>

\* getTokenInfo returns nothing: the attempt throws.
TokenMissing(s) ==
    /\ s \in BagToSet(syncs)
    /\ s.pc = "token"
    /\ SyncFailed(s, TokenError)
    /\ UNCHANGED << now, fsVars, eventVars, phase, trackerVars, storeVars, lastSessionId >>
    /\ UNCHANGED << mementoVars, contextVars >>

\* uploadFiles returns { success: false, error }.
UploadFailed(s, message) ==
    /\ s \in BagToSet(syncs)
    /\ s.pc = "upload"
    /\ SyncFailed(s, message)
    /\ UNCHANGED << now, fsVars, eventVars, phase, trackerVars, storeVars, lastSessionId >>
    /\ UNCHANGED << mementoVars, contextVars >>

\* updateLastSynced that stamps whatever path it is given.
stampsAnyPath(filePath) == TRUE

\* The two early returns of updateLastSynced: the path has no record in
\* fileHashes, or no workspace folder holds it.
stamps(filePath) ==
    /\ fileHashes[filePath] # NoMeta
    /\ getWorkspaceFolder(filePath) # <<>>

\* The loop over the batch after a successful upload: updateLastSynced of
\* the next file, up to the await of its saveFileMetadata; for a file that
\* is not tracked or has no workspace folder it returns at once; after the
\* last file the retry counter is reset and the finally block runs.
Acknowledge(s, remaining) ==
    LET tracked == { p \in remaining : stamps(p) }
    IN  IF tracked = {}
        THEN /\ syncRetryCount' = 0
             /\ isSyncing' = FALSE
             /\ syncs' = syncs (-) SetToBag({s})
             /\ last' = Step("syncDone", NoPath, s.batch, {}, s.syncStartTime)
             /\ UNCHANGED << fileHashes, stored >>
        ELSE \E p \in tracked :
             LET updatedMetadata == [fileHashes[p] EXCEPT !.lastSynced = now]
             IN  /\ fileHashes' = [fileHashes EXCEPT ![p] = updatedMetadata]
                 /\ stored' = [stored EXCEPT ![p] = updatedMetadata]
                 /\ syncs' = Replace(syncs, s,
                                [s EXCEPT !.pc = "ack", !.remaining = remaining \ {p},
                                          !.current = p])
                 /\ last' = Step("updateLastSynced", p, s.batch, {}, s.syncStartTime)
                 /\ UNCHANGED << syncRetryCount, isSyncing >>

\* uploadFiles returns { success: true }.
UploadSucceeded(s) ==
    /\ s \in BagToSet(syncs)
    /\ s.pc = "upload"
    /\ Acknowledge(s, s.remaining)
    /\ UNCHANGED << now, fsVars, eventVars, phase, changedFiles, pendingChecks, liveTimers,
                    processingFiles, checks, queued, wsLastSync, lastSessionId,
                    retryTimers >>
    /\ UNCHANGED << mementoVars, contextVars >>

\* saveFileMetadata of updateLastSynced completes (workspace lastSync =
\* Date.now()) and the loop goes on.
AcknowledgeSaved(s) ==
    /\ s \in BagToSet(syncs)
    /\ s.pc = "ack"
    /\ wsLastSync' = now
    /\ Acknowledge(s, s.remaining)
    /\ UNCHANGED << now, fsVars, eventVars, phase, changedFiles, pendingChecks, liveTimers,
                    processingFiles, checks, queued, lastSessionId, retryTimers >>
    /\ UNCHANGED << mementoVars, contextVars >>

\* -------------------------------------------------------- FileMetadataStore
\* The store over the memento extensionContext.globalState. A key that was
\* never written is not in the domain of globalState.
STORAGE_KEYS == [FILE_METADATA_PREFIX |-> "fileMetadata",
                 WORKSPACE_METADATA_PREFIX |-> "workspaceMetadata"]

\* Characters encodeURIComponent leaves as they are.
Unreserved == {"w", "0", "2", "5"}
EscapeChar(ch) ==
    CASE ch = " " -> <<"%", "2", "0">>
      [] ch = "%" -> <<"%", "2", "5">>
      [] OTHER    -> <<ch>>

RECURSIVE encodeURIComponent(_)
encodeURIComponent(text) ==
    IF text = <<>> THEN <<>>
    ELSE (IF Head(text) \in Unreserved THEN <<Head(text)>> ELSE EscapeChar(Head(text)))
            \o encodeURIComponent(Tail(text))

getStorageKey(workspaceFolder) ==
    LET workspacePart == IF workspaceFolder # <<>>
                         THEN <<"_">> \o encodeURIComponent(workspaceFolder)
                         ELSE <<>>
    IN  <<STORAGE_KEYS.FILE_METADATA_PREFIX>> \o workspacePart

getWorkspaceStorageKey(workspaceFolder) ==
    <<STORAGE_KEYS.WORKSPACE_METADATA_PREFIX, "_">> \o encodeURIComponent(workspaceFolder)

\* Memento.get(key, defaultValue) and the memento after update(key, value).
get(key, defaultValue) ==
    IF key \in DOMAIN globalState THEN globalState[key] ELSE defaultValue
update(key, value) ==
    [k \in (DOMAIN globalState) \cup {key} |-> IF k = key THEN value ELSE globalState[k]]

\* "undefined" for a stored record.
NoRecord == [path |-> NoPath, md5Hash |-> <<>>, lastModified |-> 0, lastSynced |-> 0,
             workspaceFolder |-> <<>>]
FileMetadataTable(metadata, workspaceFolder) ==
    [path |-> metadata.path, md5Hash |-> metadata.md5Hash,
     lastModified |-> metadata.lastModified, lastSynced |-> metadata.lastSynced,
     workspaceFolder |-> workspaceFolder]

getAllFileMetadataByKey(storageKey) == get(storageKey, <<>>)

\* Array.findIndex by path, from 1; 0 when no item has the path.
findIndexNever(items, filePath) == 0

findIndex(items, filePath) ==
    LET hits == { i \in 1..Len(items) : items[i].path = filePath }
    IN  IF hits = {} THEN 0 ELSE CHOOSE i \in hits : \A j \in hits : i <= j

getFileMetadata(filePath, workspaceFolder) ==
    LET allMetadata == getAllFileMetadataByKey(getStorageKey(workspaceFolder))
        index == findIndex(allMetadata, filePath)
    IN  IF index = 0 THEN NoRecord ELSE allMetadata[index]

getWorkspaceLastSyncTime(workspaceFolder) ==
    get(getWorkspaceStorageKey(workspaceFolder), [lastSync |-> 0]).lastSync

\* saveFileMetadata without the refresh of lastSync.
workspaceMetadataKept(workspaceFolder) ==
    get(getWorkspaceStorageKey(workspaceFolder), [lastSync |-> 0])

\* The workspace metadata saveFileMetadata writes: lastSync = Date.now().
workspaceMetadataStamped(workspaceFolder) ==
    [get(getWorkspaceStorageKey(workspaceFolder), [lastSync |-> 0]) EXCEPT !.lastSync = now]

Idle == [pc |-> "idle", workspaceFolder |-> <<>>, path |-> NoPath, callTime |-> 0]

\* The records a caller passes to saveFileMetadata: only the edited files
\* are saved with more than one content.
Records ==
    UNION { { FileMetadata(p, calculateMD5(c), 0, 0) :
                c \in IF p \in Edited THEN Contents ELSE {"v1"} } : p \in Paths }

\* saveFileMetadata up to the await of the update of the records' key.
saveFileMetadata(metadata, workspaceFolder) ==
    /\ storeCall = Idle
    /\ LET storageKey == getStorageKey(workspaceFolder)
           allMetadata == getAllFileMetadataByKey(storageKey)
           index == findIndex(allMetadata, metadata.path)
           newEntry == FileMetadataTable(metadata, workspaceFolder)
       IN  /\ globalState' = update(storageKey,
                                    IF index > 0
                                    THEN [allMetadata EXCEPT ![index] = newEntry]
                                    ELSE Append(allMetadata, newEntry))
           /\ saved' = [saved EXCEPT ![workspaceFolder][metadata.path] = newEntry]
    /\ storeCall' = [pc |-> "stamp", workspaceFolder |-> workspaceFolder,
                     path |-> metadata.path, callTime |-> now]
    /\ last' = StepInfo("saveFileMetadata", metadata.path, {},
                        [workspaceFolder |-> workspaceFolder])
    /\ UNCHANGED << now, fsVars, eventVars, phase, trackerVars, storeVars, syncVars >>
    /\ UNCHANGED contextVars

\* The rest of saveFileMetadata: the workspace's lastSync is set and written.
saveFileMetadataStamp ==
    /\ storeCall.pc = "stamp"
    /\ globalState' = update(getWorkspaceStorageKey(storeCall.workspaceFolder),
                             workspaceMetadataStamped(storeCall.workspaceFolder))
    /\ storeCall' = Idle
    /\ last' = StepInfo("saveFileMetadataDone", storeCall.path, {},
                        [workspaceFolder |-> storeCall.workspaceFolder])
    /\ UNCHANGED << now, fsVars, eventVars, phase, trackerVars, storeVars, syncVars, saved >>
    /\ UNCHANGED contextVars

deleteFileMetadata(filePath, workspaceFolder) ==
    /\ storeCall = Idle
    /\ LET storageKey == getStorageKey(workspaceFolder)
           allMetadata == getAllFileMetadataByKey(storageKey)
           filteredMetadata == SelectSeq(allMetadata, LAMBDA item : item.path # filePath)
       IN  /\ globalState' = IF Len(filteredMetadata) # Len(allMetadata)
                              THEN update(storageKey, filteredMetadata)
                              ELSE globalState
           /\ last' = StepInfo("deleteFileMetadata", filePath, {},
                               [workspaceFolder |-> workspaceFolder,
                                found |-> Len(filteredMetadata) # Len(allMetadata)])
    /\ saved' = [saved EXCEPT ![workspaceFolder][filePath] = NoRecord]
    /\ UNCHANGED << now, fsVars, eventVars, phase, trackerVars, storeVars, syncVars,
                    storeCall >>
    /\ UNCHANGED contextVars

clearFileMetadataForWorkspace(workspaceFolder) ==
    /\ storeCall = Idle
    /\ globalState' = update(getStorageKey(workspaceFolder), <<>>)
    /\ saved' = [saved EXCEPT ![workspaceFolder] = [p \in Paths |-> NoRecord]]
    /\ last' = StepInfo("clearFileMetadataForWorkspace", NoPath, {},
                        [workspaceFolder |-> workspaceFolder])
    /\ UNCHANGED << now, fsVars, eventVars, phase, trackerVars, storeVars, syncVars,
                    storeCall >>
    /\ UNCHANGED contextVars



\* -------------------------------------- FileMetadataStore: overlapping calls
\* The calls of the tracker on the records of its workspace folder, each cut
\* at its awaits, so that calls overlap. Arrays are objects:
\* extensionContext.globalState.get(storageKey, []) returns the array the
\* memento holds under the key or, when the key is missing, the default of
\* the call, an array of its own; update(storageKey, allMetadata) makes the
\* memento hold the array it is given.
MaxCalls == 2
MaxArrays == 2

\* What the overlapping calls leave alone.
overlapFrame == << now, fsVars, eventVars, phase, pendingChecks, liveTimers, processingFiles,
                   checks, queued, stored, syncVars, globalState, storeCall, resolverVars,
                   gitignoreVars, workspaceFolders, cacheVars >>

\* getAllFileMetadataByKey: the array it returns, and the arrays there are
\* after it.
allMetadataGot == IF held = 0 THEN Len(arrays) + 1 ELSE held
arraysAfterGet == IF held = 0 THEN Append(arrays, <<>>) ELSE arrays

\* The records of the array the memento holds under the workspace's key.
heldMetadata == IF held = 0 THEN <<>> ELSE arrays[held]

\* A call is at its await of getAllFileMetadataByKey, which completes
\* without I/O: until it goes on only continuations run, no file event.
AwaitingGet == \E c \in BagToSet(calls) : c.pc = "get"

\* saveFileMetadata or deleteFileMetadata up to the await of
\* getAllFileMetadataByKey.
storeCallBegins(op, filePath, newEntry) ==
    /\ BagCardinality(calls) < MaxCalls
    /\ Len(arraysAfterGet) <= MaxArrays
    /\ arrays' = arraysAfterGet
    /\ calls' = calls (+) SetToBag({[op |-> op, pc |-> "get", path |-> filePath,
                                     newEntry |-> newEntry, allMetadata |-> allMetadataGot]})
    /\ UNCHANGED held

\* FileTracker.updateFileMetadata, which checkFile calls for a changed file,
\* up to the first await of its saveFileMetadata.
updateFileMetadata(metadata) ==
    /\ fileHashes' = [fileHashes EXCEPT ![metadata.path] = metadata]
    /\ changedFiles' = [changedFiles EXCEPT ![metadata.path] = metadata]
    /\ storeCallBegins("save", metadata.path, FileMetadataTable(metadata, WorkspaceFolder))
    /\ saved' = [saved EXCEPT ![WorkspaceFolder][metadata.path] =
                                  FileMetadataTable(metadata, WorkspaceFolder)]
    /\ last' = StepInfo("updateFileMetadata", metadata.path, {}, [metadata |-> metadata])
    /\ UNCHANGED << wsLastSync, overlapFrame >>

\* FileTracker.updateLastSynced of a tracked file, up to the first await of
\* its saveFileMetadata.
updateLastSynced(filePath) ==
    /\ stamps(filePath)
    /\ LET updatedMetadata == [fileHashes[filePath] EXCEPT !.lastSynced = now]
       IN  /\ fileHashes' = [fileHashes EXCEPT ![filePath] = updatedMetadata]
           /\ storeCallBegins("save", filePath,
                              FileMetadataTable(updatedMetadata, WorkspaceFolder))
           /\ saved' = [saved EXCEPT ![WorkspaceFolder][filePath] =
                                         FileMetadataTable(updatedMetadata, WorkspaceFolder)]
    /\ last' = Step("updateLastSynced", filePath, {}, {}, now)
    /\ UNCHANGED << changedFiles, wsLastSync, overlapFrame >>

\* FileTracker.handleFileDelete on a delete event, up to the first await of
\* its deleteFileMetadata.
handleFileDeleteBegins(filePath) ==
    /\ ~AwaitingGet
    /\ fileHashes' = [fileHashes EXCEPT ![filePath] = NoMeta]
    /\ changedFiles' = [changedFiles EXCEPT ![filePath] = NoMeta]
    /\ storeCallBegins("delete", filePath, NoRecord)
    /\ saved' = [saved EXCEPT ![WorkspaceFolder][filePath] = NoRecord]
    /\ last' = StepInfo("handleFileDelete", filePath, {}, [tracked |-> fileHashes[filePath] # NoMeta])
    /\ UNCHANGED << wsLastSync, overlapFrame >>

\* saveFileMetadata after getAllFileMetadataByKey: findIndex, the entry is
\* replaced or pushed, update of the key, up to the await of that update.
saveFileMetadataUpdates(c) ==
    /\ c \in BagToSet(calls)
    /\ c.op = "save"
    /\ c.pc = "get"
    /\ LET allMetadata == arrays[c.allMetadata]
           index == findIndex(allMetadata, c.path)
       IN  arrays' = [arrays EXCEPT ![c.allMetadata] =
                         IF index > 0
                         THEN [allMetadata EXCEPT ![index] = c.newEntry]
                         ELSE Append(allMetadata, c.newEntry)]
    /\ held' = c.allMetadata
    /\ calls' = Replace(calls, c, [c EXCEPT !.pc = "update"])
    /\ last' = StepInfo("saveFileMetadata", c.path, {}, [workspaceFolder |-> WorkspaceFolder])
    /\ UNCHANGED << fileHashes, changedFiles, saved, wsLastSync, overlapFrame >>

\* deleteFileMetadata after getAllFileMetadataByKey: filter, and update of
\* the key if an entry was filtered out, up to the await of that update.
deleteFileMetadataUpdates(c) ==
    /\ c \in BagToSet(calls)
    /\ c.op = "delete"
    /\ c.pc = "get"
    /\ LET allMetadata == arrays[c.allMetadata]
           filteredMetadata == SelectSeq(allMetadata, LAMBDA item : item.path # c.path)
       IN  IF Len(filteredMetadata) # Len(allMetadata)
           THEN /\ Len(arrays) < MaxArrays
                /\ arrays' = Append(arrays, filteredMetadata)
                /\ held' = Len(arrays) + 1
                /\ calls' = Replace(calls, c, [c EXCEPT !.pc = "update"])
           ELSE /\ calls' = calls (-) SetToBag({c})
                /\ UNCHANGED << arrays, held >>
    /\ last' = StepInfo("deleteFileMetadata", c.path, {}, [workspaceFolder |-> WorkspaceFolder])
    /\ UNCHANGED << fileHashes, changedFiles, saved, wsLastSync, overlapFrame >>

\* The update of the records' key completes: saveFileMetadata sets the
\* workspace's lastSync and awaits its update; deleteFileMetadata returns.
storeUpdateCompletes(c) ==
    /\ c \in BagToSet(calls)
    /\ c.pc = "update"
    /\ IF c.op = "save"
       THEN /\ wsLastSync' = now
            /\ calls' = Replace(calls, c, [c EXCEPT !.pc = "lastSync"])
       ELSE /\ calls' = calls (-) SetToBag({c})
            /\ UNCHANGED wsLastSync
    /\ last' = Other
    /\ UNCHANGED << fileHashes, changedFiles, saved, arrays, held, overlapFrame >>

\* The update of the workspace's lastSync completes: saveFileMetadata returns.
saveFileMetadataReturns(c) ==
    /\ c \in BagToSet(calls)
    /\ c.pc = "lastSync"
    /\ calls' = calls (-) SetToBag({c})
    /\ last' = StepInfo("saveFileMetadataDone", c.path, {}, [workspaceFolder |-> WorkspaceFolder])
    /\ UNCHANGED << fileHashes, changedFiles, saved, wsLastSync, arrays, held, overlapFrame >>

\* No .gitignore in the workspace root, and no entry of gitignoreCache.
NoGitignore == [exists |-> FALSE, readable |-> TRUE, content |-> <<>>, mtime |-> 0]
NoCache == [patterns |-> <<>>, mtime |-> 0]

\* --------------------------------------------------------- GitignoreHandler
\* Strings are sequences of characters.
RECURSIVE split(_, _)
split(text, separator) ==
    LET hits == { i \in 1..Len(text) : text[i] = separator }
    IN  IF hits = {} THEN <<text>>
        ELSE LET i == CHOOSE k \in hits : \A j \in hits : k <= j
             IN  <<SubSeq(text, 1, i - 1)>> \o split(SubSeq(text, i + 1, Len(text)), separator)

RECURSIVE join(_, _)
join(parts, separator) ==
    IF parts = <<>> THEN <<>>
    ELSE IF Len(parts) = 1 THEN parts[1]
    ELSE parts[1] \o <<separator>> \o join(Tail(parts), separator)

startsWith(text, prefix) ==
    Len(prefix) <= Len(text) /\ SubSeq(text, 1, Len(prefix)) = prefix
endsWith(text, suffix) ==
    Len(suffix) <= Len(text) /\ SubSeq(text, Len(text) - Len(suffix) + 1, Len(text)) = suffix
includes(text, ch) == \E i \in 1..Len(text) : text[i] = ch

Whitespace == {" "}
RECURSIVE trimStart(_)
trimStart(text) ==
    IF text # <<>> /\ Head(text) \in Whitespace THEN trimStart(Tail(text)) ELSE text
RECURSIVE trimEnd(_)
trimEnd(text) ==
    IF text # <<>> /\ text[Len(text)] \in Whitespace
    THEN trimEnd(SubSeq(text, 1, Len(text) - 1)) ELSE text
trim(text) == trimEnd(trimStart(text))

\* path.basename: the last portion, trailing separators dropped.
RECURSIVE basename(_)
basename(path) ==
    IF path # <<>> /\ path[Len(path)] = "/" THEN basename(SubSeq(path, 1, Len(path) - 1))
    ELSE LET parts == split(path, "/") IN parts[Len(parts)]

\* minimatch of one path portion against one pattern portion: "*" stands
\* for any run of characters.
RECURSIVE globMatch(_, _)
globMatch(text, glob) ==
    IF glob = <<>> THEN text = <<>>
    ELSE IF Head(glob) = "*"
         THEN globMatch(text, Tail(glob)) \/ (text # <<>> /\ globMatch(Tail(text), glob))
         ELSE text # <<>> /\ Head(text) = Head(glob) /\ globMatch(Tail(text), Tail(glob))

\* A portion with a wildcard matches no empty portion, and no portion that
\* begins with a dot unless the pattern portion begins with a dot too.
matchPortion(text, glob) ==
    IF includes(glob, "*")
    THEN /\ text # <<>>
         /\ (Head(text) = "." => Head(glob) = ".")
         /\ globMatch(text, glob)
    ELSE text = glob

\* minimatch(path, pattern) with the default options, for patterns of
\* literal characters and "*": "" matches only "", a pattern that begins
\* with "#" nothing, one that begins with "!" what the rest does not match;
\* otherwise path and pattern match portion by portion.
RECURSIVE minimatch(_, _)
minimatch(path, glob) ==
    IF glob = <<>> THEN path = <<>>
    ELSE IF Head(glob) = "#" THEN FALSE
    ELSE IF Head(glob) = "!" THEN ~minimatch(path, Tail(glob))
    ELSE LET file == split(path, "/")
             portions == split(glob, "/")
         IN  /\ Len(file) = Len(portions)
             /\ \A i \in 1..Len(file) : matchPortion(file[i], portions[i])

\* The branch of matchesPattern for patterns that start with "/".
matchesRootPattern(path, rootPattern) ==
    minimatch(path, rootPattern) \/ startsWith(path, rootPattern)

\* The directory branch of matchesPattern with the loop running over the
\* last portion too.
matchesDirectoryPatternAnyPart(path, dirPattern) ==
    LET pathParts == split(path, "/")
    IN  \E i \in 1..Len(pathParts) :
            \/ minimatch(join(SubSeq(pathParts, 1, i), "/"), dirPattern)
            \/ minimatch(pathParts[i], dirPattern)

\* The branch of matchesPattern for patterns that end with "/".
matchesDirectoryPattern(path, dirPattern) ==
    LET pathParts == split(path, "/")
    IN  \E i \in 1..(Len(pathParts) - 1) :
            \/ minimatch(join(SubSeq(pathParts, 1, i), "/"), dirPattern)
            \/ minimatch(pathParts[i], dirPattern)

\* The last branch of matchesPattern: simple filename patterns.
matchesFilenamePattern(path, glob) ==
    \/ minimatch(basename(path), glob)
    \/ LET pathParts == split(path, "/")
       IN  \E i \in 1..Len(pathParts) : minimatch(pathParts[i], glob)

matchesPattern(path, glob) ==
    IF endsWith(glob, <<"/">>)
    THEN matchesDirectoryPattern(path, SubSeq(glob, 1, Len(glob) - 1))
    ELSE IF startsWith(glob, <<"/">>)
    THEN matchesRootPattern(path, Tail(glob))
    ELSE IF includes(glob, "/")
    THEN \/ minimatch(path, glob)
         \/ LET pathParts == split(path, "/")
            IN  \E i \in 1..Len(pathParts) :
                   minimatch(join(SubSeq(pathParts, i, Len(pathParts)), "/"), glob)
    ELSE matchesFilenamePattern(path, glob)

\* parseGitignoreContent with the negation lines left out.
parseLineSkippingNegation(trimmed) ==
    IF trimmed = <<>> \/ Head(trimmed) = "#" \/ Head(trimmed) = "!" THEN <<>>
    ELSE <<trimmed>>

\* What parseGitignoreContent pushes for one trimmed line.
parseLine(trimmed) ==
    IF trimmed = <<>> \/ Head(trimmed) = "#" THEN <<>>
    ELSE IF Head(trimmed) = "!" THEN <<Tail(trimmed)>>
    ELSE <<trimmed>>

RECURSIVE parseLines(_)
parseLines(lines) ==
    IF lines = <<>> THEN <<>>
    ELSE parseLine(trim(Head(lines))) \o parseLines(Tail(lines))

parseGitignoreContent(content) == parseLines(split(content, "\n"))

\* isIgnored on the path relative to the workspace root.
isIgnored(path, patterns) ==
    /\ patterns # <<>>
    /\ \E i \in 1..Len(patterns) : matchesPattern(path, patterns[i])

\* Names of files and directories, the relative paths made of them and the
\* empty path.
Names == { <<"a">>, <<"a", "b">>, <<"b">>, <<".", "b">>, <<"a", ".", "b">> }
MaxDepth == 3
RelativePaths ==
    { <<>> } \cup
    UNION { { join(parts, "/") : parts \in [1..n -> Names] } : n \in 1..MaxDepth }

GitignorePatterns ==
    { <<>>, <<"a">>, <<"a", "b">>, <<".", "b">>, <<"*">>, <<"*", "b">>, <<"*", ".", "b">>,
      <<"a", "*">>,
      <<"a", "/">>, <<"a", "b", "/">>, <<"*", "/">>, <<"a", "/", "b", "/">>,
      <<"/", "a", "/">>,
      <<"/", "a">>, <<"/", "a", "b">>, <<"/", "a", "/", "b">>, <<"/", "*">>,
      <<"a", "/", "b">>, <<"b", "/", "*">> }

\* Lines of a .gitignore and the files of at most MaxLines of them.
GitignoreLines ==
    { <<>>, <<"a">>, <<" ", "a", " ">>, <<"!", "a">>, <<"#", "a">>, <<"!">>,
      <<"b", "/">>, <<"*", ".", "b">>, <<"!", "*", ".", "b">>, <<"!", "/", "a">> }
MaxLines == 2
GitignoreContents ==
    UNION { { join(lines, "\n") : lines \in [1..n -> GitignoreLines] } : n \in 1..MaxLines }

\* A call of matchesPattern.
MatchesPattern ==
    /\ handlerPc = "new"
    /\ gitignoreContent = <<>>
    /\ matched' = matchesPattern(normalizedPath, pattern)
    /\ handlerPc' = "done"
    /\ last' = Other
    /\ UNCHANGED << now, fsVars, eventVars, phase, trackerVars, storeVars, syncVars,
                    mementoVars, resolverVars, workspaceVars, normalizedPath, pattern, gitignoreContent,
                    gitignorePatterns, ignored >>

\* loadGitignoreForWorkspace: the file is read and parsed.
loadGitignoreForWorkspace ==
    /\ handlerPc = "new"
    /\ gitignoreContent # <<>>
    /\ gitignorePatterns' = parseGitignoreContent(gitignoreContent)
    /\ handlerPc' = "loaded"
    /\ last' = Other
    /\ UNCHANGED << now, fsVars, eventVars, phase, trackerVars, storeVars, syncVars,
                    mementoVars, resolverVars, workspaceVars, normalizedPath, pattern, matched,
                    gitignoreContent, ignored >>

\* A call of isIgnored for a file of the workspace.
IsIgnored ==
    /\ handlerPc = "loaded"
    /\ ignored' = isIgnored(normalizedPath, gitignorePatterns)
    /\ handlerPc' = "done"
    /\ last' = Other
    /\ UNCHANGED << now, fsVars, eventVars, phase, trackerVars, storeVars, syncVars,
                    mementoVars, resolverVars, workspaceVars, normalizedPath, pattern, matched,
                    gitignoreContent, gitignorePatterns >>

\* ------------------------------------------- GitignoreHandler: the cache
\* The .gitignore of the workspace root as the file system has it, the
\* watcher of watchGitignoreFiles and the loads, cut at their awaits of
\* fs.promises.stat and fs.promises.readFile.
MaxGitignoreWrites == 3
MaxGitignoreEvents == 2
MaxLoads == 2
WrittenGitignores == { <<"a">>, <<"#", "a">>, <<"*", ".", "b">> }

\* What the gitignore handler leaves alone.
cacheFrame == << now, fsVars, eventVars, phase, trackerVars, storeVars, syncVars, mementoVars,
                 resolverVars, workspaceFolders, overlapVars, normalizedPath, pattern, matched,
                 gitignoreContent, ignored, handlerPc >>

\* The watcher reports an event, if it reports it.
reported(event) ==
    /\ Len(gitignoreEvents) < MaxGitignoreEvents
    /\ gitignoreEvents' = Append(gitignoreEvents, event)

\* The .gitignore is created or written. The file system advances the mtime
\* unless the write falls within the granularity of its timestamps.
EnvWriteGitignore(content, advances) ==
    /\ gitignoreFile.mtime < MaxGitignoreWrites
    /\ gitignoreFile.exists => gitignoreFile.content # content
    /\ advances \/ gitignoreFile.exists
    /\ gitignoreFile' = [exists |-> TRUE, readable |-> gitignoreFile.readable,
                         content |-> content,
                         mtime |-> IF advances THEN gitignoreFile.mtime + 1
                                   ELSE gitignoreFile.mtime]
    /\ reported(IF gitignoreFile.exists THEN "change" ELSE "create")
    /\ last' = Other
    /\ UNCHANGED << gitignorePatterns, gitignoreCache, gitignoreLoads, cacheFrame >>

\* The .gitignore is deleted.
EnvDeleteGitignore ==
    /\ gitignoreFile.exists
    /\ gitignoreFile' = [gitignoreFile EXCEPT !.exists = FALSE, !.readable = TRUE]
    /\ reported("delete")
    /\ last' = Other
    /\ UNCHANGED << gitignorePatterns, gitignoreCache, gitignoreLoads, cacheFrame >>

\* The permissions of the .gitignore change; its content and mtime stay.
EnvChmodGitignore ==
    /\ gitignoreFile.exists
    /\ gitignoreFile' = [gitignoreFile EXCEPT !.readable = ~@]
    /\ reported("change")
    /\ last' = Other
    /\ UNCHANGED << gitignorePatterns, gitignoreCache, gitignoreLoads, cacheFrame >>

\* loadGitignoreForWorkspace up to its await of fs.promises.stat; it returns
\* if fs.existsSync finds no .gitignore.
loadGitignoreBegins ==
    /\ BagCardinality(gitignoreLoads) < MaxLoads
    /\ gitignoreLoads' = IF gitignoreFile.exists
                         THEN gitignoreLoads (+) SetToBag({[pc |-> "stat", mtime |-> 0]})
                         ELSE gitignoreLoads
    /\ UNCHANGED << gitignorePatterns, gitignoreCache >>

\* GitignoreHandler.initialize for the one workspace folder.
initialize ==
    /\ handlerPc = "idle"
    /\ handlerPc' = "initialized"
    /\ loadGitignoreBegins
    /\ last' = Other
    /\ UNCHANGED << now, fsVars, eventVars, phase, trackerVars, storeVars, syncVars, mementoVars,
                    resolverVars, workspaceFolders, overlapVars, normalizedPath, pattern, matched,
                    gitignoreContent, ignored, gitignoreFile, gitignoreEvents >>

\* The handlers of watchGitignoreFiles: onDidCreate and onDidChange load,
\* onDidDelete forgets the patterns and the cache entry.
watchGitignoreFiles ==
    /\ gitignoreEvents # <<>>
    /\ gitignoreEvents' = Tail(gitignoreEvents)
    /\ IF Head(gitignoreEvents) = "delete"
       THEN /\ gitignorePatterns' = <<>>
            /\ gitignoreCache' = NoCache
            /\ UNCHANGED gitignoreLoads
       ELSE loadGitignoreBegins
    /\ last' = Other
    /\ UNCHANGED << gitignoreFile, cacheFrame >>

\* fs.promises.stat completes: patterns of the cache entry are used if its
\* mtime is the file's, else the file is read; a failure is caught and
\* logged.
loadGitignoreStatDone(load) ==
    /\ load \in BagToSet(gitignoreLoads)
    /\ load.pc = "stat"
    /\ IF ~gitignoreFile.exists
       THEN /\ gitignoreLoads' = gitignoreLoads (-) SetToBag({load})
            /\ UNCHANGED gitignorePatterns
       ELSE IF gitignoreCache # NoCache /\ gitignoreCache.mtime = gitignoreFile.mtime
       THEN /\ gitignorePatterns' = gitignoreCache.patterns
            /\ gitignoreLoads' = gitignoreLoads (-) SetToBag({load})
       ELSE /\ gitignoreLoads' = Replace(gitignoreLoads, load,
                                         [pc |-> "readFile", mtime |-> gitignoreFile.mtime])
            /\ UNCHANGED gitignorePatterns
    /\ last' = Other
    /\ UNCHANGED << gitignoreFile, gitignoreCache, gitignoreEvents, cacheFrame >>

\* fs.promises.readFile completes: the content is parsed, cached with the
\* mtime of the stat and used; a failure is caught and logged.
loadGitignoreReadDone(load) ==
    /\ load \in BagToSet(gitignoreLoads)
    /\ load.pc = "readFile"
    /\ gitignoreLoads' = gitignoreLoads (-) SetToBag({load})
    /\ IF gitignoreFile.exists /\ gitignoreFile.readable
       THEN LET patterns == parseGitignoreContent(gitignoreFile.content)
            IN  /\ gitignoreCache' = [patterns |-> patterns, mtime |-> load.mtime]
                /\ gitignorePatterns' = patterns
       ELSE UNCHANGED << gitignorePatterns, gitignoreCache >>
    /\ last' = Other
    /\ UNCHANGED << gitignoreFile, gitignoreEvents, cacheFrame >>

\* ---------------------------------------------------------- ImportResolver
\* path.dirname of an absolute path.
dirname(path) ==
    LET parts == split(path, "/")
    IN  IF Len(parts) <= 2 THEN <<"/">> ELSE join(SubSeq(parts, 1, Len(parts) - 1), "/")

\* The portions of a path with "", "." and ".." worked out.
RECURSIVE normalizeParts(_, _)
normalizeParts(parts, done) ==
    IF parts = <<>> THEN done
    ELSE IF Head(parts) \in { <<>>, <<".">> } THEN normalizeParts(Tail(parts), done)
    ELSE IF Head(parts) = <<".", ".">>
         THEN normalizeParts(Tail(parts),
                             IF done = <<>> THEN done ELSE SubSeq(done, 1, Len(done) - 1))
         ELSE normalizeParts(Tail(parts), Append(done, Head(parts)))

\* path.resolve(baseDir, importPath) for an absolute baseDir.
resolve(baseDir, importPath) ==
    LET whole == IF startsWith(importPath, <<"/">>) THEN importPath
                 ELSE baseDir \o <<"/">> \o importPath
    IN  <<"/">> \o join(normalizeParts(split(whole, "/"), <<>>), "/")

\* fs.existsSync and fs.statSync(..).isFile() over the files of the disk: a
\* directory exists when a file lies below it.
existsSync(files, path) ==
    path \in files \/ \E f \in files : startsWith(f, path \o <<"/">>)
isFile(files, path) == path \in files

\* null, the result of a resolution that found nothing.
Null == <<>>

Index == <<"/", "i", "n", "d", "e", "x">>

\* The loop of resolveLocalImportPath over the extensions.
RECURSIVE tryExtensions(_, _, _, _)
tryExtensions(files, baseDir, importPath, extensions) ==
    IF extensions = <<>> THEN Null
    ELSE LET absolutePath == resolve(baseDir, importPath \o Head(extensions))
             indexPath == resolve(baseDir, importPath \o Index \o Head(extensions))
         IN  IF existsSync(files, absolutePath) THEN absolutePath
             ELSE IF existsSync(files, indexPath) THEN indexPath
             ELSE tryExtensions(files, baseDir, importPath, Tail(extensions))

resolveLocalImportPath(files, baseDir, importPath, extensions) ==
    LET hasExtension == \E i \in 1..Len(extensions) : endsWith(importPath, extensions[i])
        exactPath == resolve(baseDir, importPath)
        withExtension == tryExtensions(files, baseDir, importPath, extensions)
    IN  IF hasExtension /\ existsSync(files, exactPath) THEN exactPath
        ELSE IF withExtension # Null THEN withExtension
        ELSE IF existsSync(files, exactPath) /\ isFile(files, exactPath) THEN exactPath
        ELSE Null

isLocalImport(importPath) ==
    \/ startsWith(importPath, <<".", "/">>)
    \/ startsWith(importPath, <<".", ".", "/">>)
    \/ startsWith(importPath, <<"/">>)

\* A list as it is, duplicates kept.
keepAll(list) == list

\* [...new Set(list)]: the first occurrence of every entry, in order.
RECURSIVE unique(_)
unique(list) ==
    IF list = <<>> THEN <<>>
    ELSE LET front == unique(SubSeq(list, 1, Len(list) - 1))
             x == list[Len(list)]
         IN  IF \E i \in 1..Len(front) : front[i] = x THEN front ELSE Append(front, x)

\* The text of a file is the sequence of its import statements, each an
\* ES import ("import") or a CommonJS require ("require") of a path.
JsExtensions == << <<".", "t", "s">>, <<".", "t", "s", "x">>, <<".", "j", "s">>,
                   <<".", "j", "s", "x">> >>
SolExtensions == << <<".", "s", "o", "l">> >>

\* The paths one regular expression of the resolver finds, resolved.
RECURSIVE resolveEach(_, _, _, _, _)
resolveEach(files, baseDir, statements, extensions, localOnly) ==
    IF statements = <<>> THEN <<>>
    ELSE LET importPath == Head(statements).path
             resolvedPath == IF localOnly /\ ~isLocalImport(importPath) THEN Null
                             ELSE resolveLocalImportPath(files, baseDir, importPath, extensions)
             rest == resolveEach(files, baseDir, Tail(statements), extensions, localOnly)
         IN  IF resolvedPath # Null THEN <<resolvedPath>> \o rest ELSE rest

IsImport(s) == s.kind = "import"
IsRequire(s) == s.kind = "require"

resolveJsImports(files, filePath, fileContent) ==
    LET baseDir == dirname(filePath)
    IN  unique(resolveEach(files, baseDir, SelectSeq(fileContent, IsImport), JsExtensions, TRUE)
               \o resolveEach(files, baseDir, SelectSeq(fileContent, IsRequire), JsExtensions, TRUE))

resolveSolidityImports(files, filePath, fileContent) ==
    unique(resolveEach(files, dirname(filePath), SelectSeq(fileContent, IsImport),
                       SolExtensions, FALSE))

\* ImportResolver.resolveImports for the languages of the bounds.
resolveImports(files, filePath, fileContent, languageId) ==
    IF languageId \in { "typescript", "javascript", "typescriptreact", "javascriptreact" }
    THEN resolveJsImports(files, filePath, fileContent)
    ELSE IF languageId = "solidity"
    THEN resolveSolidityImports(files, filePath, fileContent)
    ELSE <<>>

\* The files of the bounds: a workspace /w with the primary file in /w/s.
PathM == <<"/", "w", "/", "s", "/", "m", ".", "j", "s">>
PathC == <<"/", "w", "/", "s", "/", "c", ".", "s", "o", "l">>
PathXjs == <<"/", "w", "/", "s", "/", "x", ".", "j", "s">>
PathXts == <<"/", "w", "/", "s", "/", "x", ".", "t", "s">>
PathXindex == <<"/", "w", "/", "s", "/", "x", "/", "i", "n", "d", "e", "x", ".", "j", "s">>
PathY == <<"/", "w", "/", "s", "/", "y", ".", "j", "s">>
PathUpX == <<"/", "w", "/", "x", ".", "j", "s">>
PathT == <<"/", "w", "/", "s", "/", "t", ".", "s", "o", "l">>
NodeModules == <<"n", "o", "d", "e", "_", "m", "o", "d", "u", "l", "e", "s">>
PackageT == <<"p", "/", "t", ".", "s", "o", "l">>
PathPackageT == <<"/", "w", "/">> \o NodeModules \o <<"/">> \o PackageT
OtherFiles == { PathXjs, PathXts, PathXindex, PathY, PathUpX, PathT, PathPackageT }

ImportPaths ==
    { <<".", "/", "x">>, <<".", "/", "y">>, <<".", ".", "/", "x">>,
      <<".", "/", "x", ".", "j", "s">>, <<"x">>, <<".", "/", "z">>,
      <<".", "/", "t", ".", "s", "o", "l">>, PackageT }
Statements ==
    [kind : {"import"}, path : ImportPaths]
        \cup [kind : {"require"}, path : { <<".", "/", "x">>, <<".", "/", "y">> }]
MaxStatements == 2
FileContents == UNION { [1..n -> Statements] : n \in 0..MaxStatements }

\* The text of the files other than the primary one: x and y import each
\* other, x requires the primary file, y imports the x of the parent
\* directory.
Import(importPath) == [kind |-> "import", path |-> importPath]
Require(importPath) == [kind |-> "require", path |-> importPath]
getText(proj, filePath) ==
    IF filePath = proj.primary THEN proj.statements
    ELSE IF filePath = PathXjs THEN << Import(<<".", "/", "y">>), Require(<<".", "/", "m">>) >>
    ELSE IF filePath = PathXts THEN << Import(<<".", "/", "y">>) >>
    ELSE IF filePath = PathY
         THEN << Import(<<".", "/", "x">>), Import(<<".", ".", "/", "x">>) >>
    ELSE <<>>

\* document.languageId || detectLanguageByFilePath(path), by the extension.
languageIdOf(filePath) ==
    IF endsWith(filePath, <<".", "s", "o", "l">>) THEN "solidity"
    ELSE IF endsWith(filePath, <<".", "t", "s">>) THEN "typescript"
    ELSE IF endsWith(filePath, <<".", "j", "s">>) THEN "javascript"
    ELSE "plaintext"

Projects ==
    { [exists |-> others \cup {primary}, primary |-> primary,
       languageId |-> languageIdOf(primary), statements |-> statements] :
         others \in SUBSET OtherFiles, primary \in {PathM, PathC}, statements \in FileContents }

NoProject == [exists |-> {}, primary |-> <<>>, languageId |-> "", statements |-> <<>>]
NoContext ==
    [op |-> "", primaryFile |-> <<>>, importedFiles |-> <<>>, importPaths |-> <<>>,
     resolveImports |-> FALSE, maxImportDepth |-> 0]

\* The test of processedFiles left out: no import path counts as processed.
hasNever(processedFiles, importPath) == FALSE

\* processedFiles.has(importPath)
has(processedFiles, importPath) == importPath \in processedFiles

\* context.importedFiles and processedFiles as resolveImportsRecursively
\* leaves them; `found` is the pair of them. An import path that is no file
\* cannot be opened and is passed over.
RECURSIVE resolveImportsRecursively(_, _, _, _)
RECURSIVE processImports(_, _, _, _)
resolveImportsRecursively(proj, found, filePath, depthRemaining) ==
    IF depthRemaining <= 0 THEN found
    ELSE processImports(proj, found,
                        resolveImports(proj.exists, filePath, getText(proj, filePath),
                                       IF filePath = proj.primary THEN proj.languageId
                                       ELSE languageIdOf(filePath)),
                        depthRemaining)
processImports(proj, found, importPaths, depthRemaining) ==
    IF importPaths = <<>> THEN found
    ELSE LET importPath == Head(importPaths)
             marked == [found EXCEPT !.processedFiles = @ \cup {importPath}]
             added == [marked EXCEPT !.importedFiles = Append(@, importPath)]
         IN  IF has(found.processedFiles, importPath)
             THEN processImports(proj, found, Tail(importPaths), depthRemaining)
             ELSE IF ~isFile(proj.exists, importPath)
             THEN processImports(proj, marked, Tail(importPaths), depthRemaining)
             ELSE processImports(proj,
                                 IF depthRemaining > 1
                                 THEN resolveImportsRecursively(proj, added, importPath,
                                                                depthRemaining - 1)
                                 ELSE added,
                                 Tail(importPaths), depthRemaining)

\* The test of getCodeContextForLLM with the flag left out.
wantsImportsWhateverTheFlag(resolveFlag, maxImportDepth) == maxImportDepth >= 0

\* The test of getCodeContextForLLM before it resolves imports.
wantsImports(resolveFlag, maxImportDepth) == resolveFlag /\ maxImportDepth > 0

MaxImportDepth == 2

\* getCodeContextForLLM(primaryFileUri, selection, resolveImports,
\* maxImportDepth) for a primary file of the workspace.
getCodeContextForLLM(resolveFlag, maxImportDepth) ==
    /\ project # NoProject
    /\ context.op = ""
    /\ LET start == [importedFiles |-> <<>>, processedFiles |-> {project.primary}]
           found == IF wantsImports(resolveFlag, maxImportDepth)
                    THEN resolveImportsRecursively(project, start, project.primary,
                                                   maxImportDepth)
                    ELSE start
       IN  context' = [op |-> "getCodeContextForLLM", primaryFile |-> project.primary,
                       importedFiles |-> found.importedFiles, importPaths |-> <<>>,
                       resolveImports |-> resolveFlag, maxImportDepth |-> maxImportDepth]
    /\ last' = Other
    /\ UNCHANGED << now, fsVars, eventVars, phase, trackerVars, storeVars, syncVars,
                    mementoVars, gitignoreVars, workspaceVars, project >>

\* ImportResolver.resolveImports on the primary file.
ResolveImports ==
    /\ project # NoProject
    /\ context.op = ""
    /\ context' = [context EXCEPT !.op = "resolveImports",
                                  !.primaryFile = project.primary,
                                  !.importPaths = resolveImports(project.exists, project.primary,
                                                                 project.statements,
                                                                 project.languageId)]
    /\ last' = Other
    /\ UNCHANGED << now, fsVars, eventVars, phase, trackerVars, storeVars, syncVars,
                    mementoVars, gitignoreVars, workspaceVars, project >>

\* ------------------------------------------------------------------ dispose
\* CodeIndexing.dispose: the sync interval is cleared (pendingSyncTimeout is
\* never assigned, so no retry timeout is), then FileTracker.dispose clears
\* the pending debounce timeouts, disposes the watchers and clears
\* fileHashes, processingFiles and changedFiles. Classifications and sync
\* attempts in flight go on.
Dispose ==
    /\ ~Yielding
    /\ phase = "watching"
    /\ phase' = "disposed"
    /\ liveTimers' = [p \in Paths |-> clearExisting(p)]
    /\ pendingChecks' = [p \in Paths |-> FALSE]
    /\ fileHashes' = [p \in Paths |-> NoMeta]
    /\ processingFiles' = {}
    /\ changedFiles' = [p \in Paths |-> NoMeta]
    /\ queued' = {}
    /\ last' = Other
    /\ UNCHANGED << now, fsVars, eventVars, checks, storeVars, syncVars >>
    /\ UNCHANGED << mementoVars, contextVars >>

\* -------------------------------------------------------------------- spec
\* The tracker, the coordinator and the store after construction.
InitTracking ==
    /\ now = StartTime
    /\ fsContent = [p \in Paths |-> "v1"]
    /\ fsMtime = [p \in Paths |-> 0]
    /\ writes = 0
    /\ events = {}
    /\ deleteEvents = {}
    /\ phase = "init"
    /\ fileHashes = [p \in Paths |-> NoMeta]
    /\ changedFiles = [p \in Paths |-> NoMeta]
    /\ pendingChecks = [p \in Paths |-> FALSE]
    /\ liveTimers = [p \in Paths |-> 0]
    /\ processingFiles = {}
    /\ checks = EmptyBag
    /\ stored = [p \in Paths |-> NoMeta]
    /\ wsLastSync = 0
    /\ isSyncing = FALSE
    /\ lastSessionId = FALSE
    /\ syncRetryCount = 0
    /\ retryTimers = 0
    /\ syncs = EmptyBag
    /\ queued = {}
    /\ last = Other
    /\ globalState = << >>
    /\ storeCall = Idle
    /\ saved = [w \in Workspaces |-> [p \in Paths |-> NoRecord]]
    /\ workspaceFolders = {WorkspaceFolder}
    /\ arrays = <<>>
    /\ held = 0
    /\ calls = EmptyBag
    /\ gitignoreFile = NoGitignore
    /\ gitignoreCache = NoCache
    /\ gitignoreEvents = <<>>
    /\ gitignoreLoads = EmptyBag

\* No context request and no gitignore call is under way.
InitContextIdle ==
    /\ project = NoProject
    /\ context = NoContext
    /\ normalizedPath = <<>>
    /\ pattern = <<>>
    /\ matched = FALSE
    /\ gitignoreContent = <<>>
    /\ gitignorePatterns = <<>>
    /\ ignored = FALSE
    /\ handlerPc = "idle"

Init == InitTracking /\ InitContextIdle

Environment ==
    \/ ClockTick
    \/ \E p \in Edited, content \in Contents : EnvWrite(p, content)
    \/ \E p \in Edited : EnvTouch(p)
    \/ \E p \in Edited : EnvDelete(p)

Tracker ==
    \/ IndexWorkspace
    \/ RegisterFileWatchers
    \/ \E p \in Paths : OnDidChange(p)
    \/ \E p \in Paths : DebounceFire(p)
    \/ \E p \in Paths : OnDidSave(p)
    \/ \E p \in Paths : OnDidDelete(p)
    \/ \E c \in BagToSet(checks) : ReadDone(c)
    \/ \E c \in BagToSet(checks) : Classify(c)
    \/ \E c \in BagToSet(checks) : ReadFail(c)
    \/ \E c \in BagToSet(checks) : ClassifySaved(c)

RetryableErrors == { m \in UploadErrors : shouldRetry(m) }
PermanentErrors == UploadErrors \ RetryableErrors

\* The tracker under every file event, with sync attempts that succeed or
\* fail for good.
Next ==
    \/ Environment
    \/ Tracker
    \/ syncFilesForSession
    \/ \E s \in BagToSet(syncs) : TokenFound(s)
    \/ \E s \in BagToSet(syncs) : TokenMissing(s)
    \/ \E s \in BagToSet(syncs), message \in PermanentErrors : UploadFailed(s, message)
    \/ \E s \in BagToSet(syncs) : UploadSucceeded(s)
    \/ \E s \in BagToSet(syncs) : AcknowledgeSaved(s)

Spec == Init /\ [][Next]_vars

\* Edits, debounced classification and the coordinator's triggers.
Changes ==
    \/ \E p \in Edited, content \in Contents : EnvWrite(p, content)
    \/ IndexWorkspace
    \/ RegisterFileWatchers
    \/ \E p \in Paths : OnDidChange(p)
    \/ \E p \in Paths : DebounceFire(p)
    \/ \E c \in BagToSet(checks) : ReadDone(c)
    \/ \E c \in BagToSet(checks) : Classify(c)
    \/ \E c \in BagToSet(checks) : ClassifySaved(c)
    \/ setSessionId
    \/ BackgroundTick
    \/ syncFilesForSession
    \/ RetryFire
    \/ \E s \in BagToSet(syncs) : TokenFound(s)

\* The coordinator under every outcome of a sync attempt.
NextCoordinator ==
    \/ Changes
    \/ \E s \in BagToSet(syncs) : TokenMissing(s)
    \/ \E s \in BagToSet(syncs), message \in UploadErrors : UploadFailed(s, message)
    \/ \E s \in BagToSet(syncs) : UploadSucceeded(s)
    \/ \E s \in BagToSet(syncs) : AcknowledgeSaved(s)

SpecCoordinator == Init /\ [][NextCoordinator]_vars

\* The coordinator when every upload fails with a network error.
NextRetry ==
    \/ Changes
    \/ \E s \in BagToSet(syncs) : UploadFailed(s, {"network", "error"})

SpecRetry == Init /\ [][NextRetry]_vars

\* The same with a dispose of the extension at any moment after startup.
NextDispose ==
    \/ Changes
    \/ \E s \in BagToSet(syncs) : UploadFailed(s, {"network", "error"})
    \/ Dispose

SpecDispose == Init /\ [][NextDispose]_vars

\* The store alone, under any sequence of save, delete and clear calls that
\* do not overlap.
NextStore ==
    \/ \E metadata \in Records, w \in Workspaces : saveFileMetadata(metadata, w)
    \/ saveFileMetadataStamp
    \/ \E p \in Paths, w \in Workspaces : deleteFileMetadata(p, w)
    \/ \E w \in Workspaces : clearFileMetadataForWorkspace(w)
    \/ ClockTick

SpecStore == Init /\ [][NextStore]_vars

\* The tracker and successful sync attempts while files are deleted and
\* created again and the workspace folder may be removed.
NextFolders ==
    \/ \E p \in Edited, content \in Contents : EnvWrite(p, content)
    \/ \E p \in Edited : EnvDelete(p)
    \/ RemoveWorkspaceFolder
    \/ IndexWorkspace
    \/ RegisterFileWatchers
    \/ \E p \in Paths : OnDidSave(p)
    \/ \E p \in Paths : OnDidDelete(p)
    \/ \E c \in BagToSet(checks) : ReadDone(c)
    \/ \E c \in BagToSet(checks) : Classify(c)
    \/ \E c \in BagToSet(checks) : ReadFail(c)
    \/ \E c \in BagToSet(checks) : ClassifySaved(c)
    \/ syncFilesForSession
    \/ \E s \in BagToSet(syncs) : TokenFound(s)
    \/ \E s \in BagToSet(syncs) : UploadSucceeded(s)
    \/ \E s \in BagToSet(syncs) : AcknowledgeSaved(s)

SpecFolders == Init /\ [][NextFolders]_vars

\* The in-memory records and the records of the store under classifications,
\* acknowledgements and delete handling whose store calls overlap, from the
\* first start of the extension on (nothing is stored yet).
NextOverlap ==
    \/ \E p \in Paths, content \in Contents :
          /\ p \in Edited \/ content = "v1"
          /\ hasChanged(fileHashes[p], calculateMD5(content), fsMtime[p])
          /\ updateFileMetadata(FileMetadata(p, calculateMD5(content), fsMtime[p],
                                             fileHashes[p].lastSynced))
    \/ \E p \in Paths : updateLastSynced(p)
    \/ \E p \in Paths : handleFileDeleteBegins(p)
    \/ \E c \in BagToSet(calls) : saveFileMetadataUpdates(c)
    \/ \E c \in BagToSet(calls) : deleteFileMetadataUpdates(c)
    \/ \E c \in BagToSet(calls) : storeUpdateCompletes(c)
    \/ \E c \in BagToSet(calls) : saveFileMetadataReturns(c)

SpecOverlap == Init /\ [][NextOverlap]_vars

\* The gitignore handler of a workspace whose .gitignore is created, written,
\* made unreadable and deleted while the extension runs.
NextCache ==
    \/ \E content \in WrittenGitignores, advances \in BOOLEAN :
          EnvWriteGitignore(content, advances)
    \/ EnvDeleteGitignore
    \/ EnvChmodGitignore
    \/ initialize
    \/ watchGitignoreFiles
    \/ \E load \in BagToSet(gitignoreLoads) : loadGitignoreStatDone(load)
    \/ \E load \in BagToSet(gitignoreLoads) : loadGitignoreReadDone(load)

SpecCache == Init /\ [][NextCache]_vars

\* The tracker alone under edits and their change events. The event loop
\* delivers every event, runs the callback of every timeout that is not
\* cleared, and every file read and store write completes; how often the
\* user edits is up to the user.
NextTrailing ==
    \/ \E p \in Edited, content \in Contents : EnvWrite(p, content)
    \/ ClockTick
    \/ IndexWorkspace
    \/ RegisterFileWatchers
    \/ \E p \in Paths : OnDidChange(p)
    \/ \E p \in Paths : DebounceFire(p)
    \/ \E c \in BagToSet(checks) : ReadDone(c)
    \/ \E c \in BagToSet(checks) : Classify(c)
    \/ \E c \in BagToSet(checks) : ClassifySaved(c)

FairTrailing ==
    /\ WF_vars(IndexWorkspace)
    /\ WF_vars(RegisterFileWatchers)
    /\ \A p \in Paths : WF_vars(OnDidChange(p))
    /\ \A p \in Paths : WF_vars(DebounceFire(p))
    /\ WF_vars(\E c \in BagToSet(checks) : ReadDone(c))
    /\ WF_vars(\E c \in BagToSet(checks) : Classify(c))
    /\ WF_vars(\E c \in BagToSet(checks) : ClassifySaved(c))

SpecTrailing == Init /\ [][NextTrailing]_vars /\ FairTrailing

\* matchesPattern on every path and pattern of the bounds.
InitMatch ==
    /\ InitTracking
    /\ project = NoProject
    /\ context = NoContext
    /\ normalizedPath \in RelativePaths
    /\ pattern \in GitignorePatterns
    /\ matched = FALSE
    /\ gitignoreContent = <<>>
    /\ gitignorePatterns = <<>>
    /\ ignored = FALSE
    /\ handlerPc = "new"

NextMatch == MatchesPattern

SpecMatch == InitMatch /\ [][NextMatch]_vars

\* A .gitignore is loaded and a path is tested against it.
InitIgnore ==
    /\ InitTracking
    /\ project = NoProject
    /\ context = NoContext
    /\ normalizedPath \in RelativePaths
    /\ pattern = <<>>
    /\ matched = FALSE
    /\ gitignoreContent \in GitignoreContents \ { <<>> }
    /\ gitignorePatterns = <<>>
    /\ ignored = FALSE
    /\ handlerPc = "new"

NextIgnore ==
    \/ loadGitignoreForWorkspace
    \/ IsIgnored

SpecIgnore == InitIgnore /\ [][NextIgnore]_vars

\* The import resolver and the context assembly on every project of the
\* bounds.
InitContext ==
    /\ InitTracking
    /\ project \in Projects
    /\ context = NoContext
    /\ normalizedPath = <<>>
    /\ pattern = <<>>
    /\ matched = FALSE
    /\ gitignoreContent = <<>>
    /\ gitignorePatterns = <<>>
    /\ ignored = FALSE
    /\ handlerPc = "idle"

NextContext ==
    \/ ResolveImports
    \/ \E resolveFlag \in BOOLEAN, maxImportDepth \in 0..MaxImportDepth :
           getCodeContextForLLM(resolveFlag, maxImportDepth)

SpecContext == InitContext /\ [][NextContext]_vars

\* ================================================================== claims
Count(bag, e) == IF e \in DOMAIN bag THEN bag[e] ELSE 0
IsDrain(step) == step.op \in {"tickDrain", "syncNowDrain", "retryDrain"}
IsSkipped(step) == step.op \in {"tickSkipped", "syncNowSkipped", "retrySkipped"}
NoEntries == [p \in Paths |-> NoMeta]

\* C1 (as claimed): when every upload fails with a network error, a failed
\* attempt is followed by exactly MAX_SYNC_RETRIES retries before the batch
\* is dropped: the retry counter goes back to 0 only from MAX_SYNC_RETRIES,
\* in the step of a failed attempt.
C1_ExactlyThreeRetries ==
    [][ (syncRetryCount > 0 /\ syncRetryCount' = 0)
            => (syncRetryCount = MAX_SYNC_RETRIES /\ isSyncing /\ ~isSyncing') ]_vars

\* C2: at most one sync attempt is in flight, and only while isSyncing; a
\* timer tick, a retry or an explicit sync request that arrives while
\* isSyncing is true leaves the pending change set, the attempts in flight
\* and the retry counter as they are.
C2_NonReentrant ==
    /\ [](BagCardinality(syncs) <= 1 /\ (syncs # EmptyBag => isSyncing))
    /\ [][ (isSyncing /\ (IsDrain(last') \/ IsSkipped(last')))
                => (IsSkipped(last') /\ UNCHANGED << changedFiles, syncs, syncRetryCount >>) ]_vars

\* C2 witness: a sync request has just been skipped during an attempt, with
\* entries pending that it would have drained.
C2_Witness ==
    /\ isSyncing
    /\ last.op \in {"tickSkipped", "syncNowSkipped"}
    /\ filesToSync # {}
    /\ syncs # EmptyBag

C3_StillNeedsSync(p) ==
    \/ fileHashes[p] = NoMeta
    \/ fileHashes[p].lastSynced = 0
    \/ fileHashes[p].lastSynced < changedFiles[p].lastModified
    \/ fileHashes[p].md5Hash # changedFiles[p].md5Hash

C4_QueuedIsReturnedNext ==
    [][ IsDrain(last') =>
          \A p \in queued : changedFiles[p] # NoMeta => p \in last'.batch ]_vars

\* C5 (as claimed): when a successful batch has been acknowledged, every
\* file of the batch that is still tracked has lastSynced = syncStartTime.
C5_BatchTimestamp ==
    last.op = "syncDone" =>
        \A p \in last.batch :
            fileHashes[p] # NoMeta => fileHashes[p].lastSynced = last.time

\* C6 (as claimed): right after updateLastSynced(p), checkForChanges would
\* not return p.
C6_RoundTrip ==
    last.op = "updateLastSynced" => ~(last.path \in filesToSync)

\* C7: a classification that reads the hash of the record it found and an mtime within
\* MTIME_TOLERANCE of the recorded one changes neither the in-memory record,
\* nor the persisted record, nor the pending change set, and ends at once.
C7_Idempotent ==
    [][ last'.op = "classify" =>
          LET recorded == last'.info.existingMetadata
              read == last'.info.metadata
          IN  ( /\ recorded # NoMeta
                /\ read.md5Hash = recorded.md5Hash
                /\ Abs(read.lastModified - recorded.lastModified) <= MTIME_TOLERANCE )
              => /\ UNCHANGED << fileHashes, changedFiles, stored, wsLastSync >>
                 /\ \A c \in BagToSet(checks') : Count(checks', c) <= Count(checks, c) ]_vars

\* C7 witness: an edited file was classified as unchanged although its mtime
\* differs from the recorded one (within the tolerance).
C7_Witness ==
    /\ last.op = "classify"
    /\ last.info.existingMetadata # NoMeta
    /\ last.info.metadata.md5Hash = last.info.existingMetadata.md5Hash
    /\ last.info.metadata.lastModified # last.info.existingMetadata.lastModified
    /\ Abs(last.info.metadata.lastModified - last.info.existingMetadata.lastModified)
         <= MTIME_TOLERANCE
    /\ fileHashes[last.path] = last.info.existingMetadata
    /\ InFlight(last.path) = {}
    /\ changedFiles[last.path] = NoMeta

\* C8 (as claimed): the events on a path within one debounce window lead to
\* one timeout, and when it fires (the file still being there) one
\* classification of the path starts.
C8_OneClassificationPerBurst ==
    /\ [](\A p \in Paths : liveTimers[p] <= 1)
    /\ [][ (last'.op = "debounceFire" /\ ~shouldSkipFile(last'.path))
                => Count(checks', NewCheck(last'.path, "timer"))
                     = Count(checks, NewCheck(last'.path, "timer")) + 1 ]_vars

\* C9 (as claimed): a classification changes the file's entry in the pending
\* change set only if needsSync is true.
C9_QueuedOnlyIfNeedsSync ==
    [][ last'.op = "classify" =>
          LET p == last'.path
              existing == last'.info.existingMetadata
              mtime == last'.info.metadata.lastModified
              changed == \/ existing = NoMeta
                         \/ last'.info.metadata.md5Hash # existing.md5Hash
                         \/ Abs(mtime - existing.lastModified) > MTIME_TOLERANCE
              sync == changed /\ ( \/ existing.lastSynced = 0
                                   \/ existing.lastSynced < mtime
                                   \/ wsLastSync < mtime )
          IN  changedFiles'[p] # changedFiles[p] => sync ]_vars

\* C10 (as claimed): at most one classification of a path is in flight.
C10_OneInFlightPerPath ==
    \A p \in Paths : InFlightCount(p) <= 1

\* C11: a sync attempt that fails with a message containing none of
\* "network", "server", "timeout" (an auth failure, a missing token) drops the
\* batch at once: the retry counter is 0 afterwards, no retry timeout is set,
\* the attempt is over and isSyncing is false.
C11_NonRetryable(message) ==
    ~("network" \in message \/ "server" \in message \/ "timeout" \in message)

C11_NoRetryOnPermanentFailure ==
    [][ (last'.op = "syncFailed" /\ C11_NonRetryable(last'.info.message))
            => /\ syncRetryCount' = 0
               /\ retryTimers' = retryTimers
               /\ ~isSyncing'
               /\ syncs' = EmptyBag ]_vars

\* C11 witness: an attempt that was itself started after a retryable failure
\* (retry counter above 0) has failed with a non-retryable message.
C11_Witness ==
    /\ last.op = "syncFailed"
    /\ C11_NonRetryable(last.info.message)
    /\ last.info.retries > 0
    /\ last.batch # {}
    /\ syncRetryCount = 0

\* C12: the files drained for an upload are out of the pending change set
\* from the drain on, the failure of the attempt puts none of them back, and
\* the only steps that put an entry in the set are steps of a classification.
C12_FailedBatchNotRequeued ==
    /\ [][ IsDrain(last') => \A p \in last'.batch : changedFiles'[p] = NoMeta ]_vars
    /\ [][ last'.op = "syncFailed" => changedFiles' = changedFiles ]_vars
    /\ [][ (\E p \in Paths : changedFiles'[p] # NoMeta /\ changedFiles'[p] # changedFiles[p])
              => checks' # checks ]_vars

\* C12 witness: an attempt has failed and none of its files is pending.
C12_Witness ==
    /\ last.op = "syncFailed"
    /\ last.batch # {}
    /\ \A p \in last.batch : changedFiles[p] = NoMeta

\* C13 (as claimed): when the watcher reports the deletion of a tracked file
\* p, the records of p are removed from the in-memory map, from the pending
\* change set and from the store, and no later drain returns p while nothing
\* exists at p.
C13_DeleteRemovesMetadata ==
    /\ [][ (last'.op = "onDidDelete" /\ last'.info.tracked)
              => LET p == last'.path
                 IN  /\ fileHashes'[p] = NoMeta
                     /\ changedFiles'[p] = NoMeta
                     /\ stored'[p] = NoMeta ]_vars
    /\ [][ IsDrain(last')
              => \A p \in last'.batch : ~(fsContent[p] = Absent /\ ~(p \in deleteEvents)) ]_vars

\* C14 (as claimed): after dispose, the pending change set and the
\* in-memory metadata map stay empty, no debounce timeout, interval tick or
\* retry timeout fires, and no classification or sync attempt starts.
C14_DisposeTearsDown ==
    /\ [](phase = "disposed" => (fileHashes = NoEntries /\ changedFiles = NoEntries))
    /\ [][ phase = "disposed"
              => /\ ~(last'.op \in {"debounceFire", "tickDrain", "tickSkipped",
                                     "retryDrain", "retrySkipped", "syncNowDrain"})
                 /\ BagCardinality(checks') <= BagCardinality(checks)
                 /\ BagCardinality(syncs') <= BagCardinality(syncs) ]_vars

\* C15: a save event on p cancels the pending debounce timeout of p and
\* starts one classification of p at once: after the handler no timeout of p
\* is left and exactly one more checkFile(p) is in flight.
C15_SaveBypassesDebounce ==
    [][ last'.op = "onDidSave"
          => LET p == last'.path
             IN  /\ liveTimers'[p] = 0
                 /\ ~pendingChecks'[p]
                 /\ Count(checks', NewCheck(p, "save")) = Count(checks, NewCheck(p, "save")) + 1
                 /\ BagCardinality(checks') = BagCardinality(checks) + 1 ]_vars

\* C15 witness: a save arrived while the timeout of an earlier change event
\* on the same path was pending.
C15_Witness ==
    /\ last.op = "onDidSave"
    /\ last.info.hadTimer
    /\ liveTimers[last.path] = 0
    /\ Count(checks, NewCheck(last.path, "save")) = 1

\* C16 (as claimed): the record a classification writes for a changed file,
\* in memory and in the store, carries the lastSynced the file's record has
\* at the moment of the write, whatever updateLastSynced did to the path
\* while the classification was in flight.
C16_ClassificationKeepsLastSynced ==
    [][ (last'.op = "classify" /\ fileHashes[last'.path] # NoMeta
                              /\ fileHashes'[last'.path] # fileHashes[last'.path])
          => LET p == last'.path
             IN  /\ fileHashes'[p].lastSynced = fileHashes[p].lastSynced
                 /\ stored'[p].lastSynced = fileHashes[p].lastSynced ]_vars

\* C17: the background timer starts a sync attempt only when isSyncing is
\* false and a session id has been set; a tick while no session id is set
\* drains nothing from the pending change set and starts no attempt, so the
\* pending entries are all still there after it.
C17_TimerNeedsSession ==
    [][ /\ (last'.op = "tickDrain" => (~isSyncing /\ lastSessionId))
        /\ ((last'.op \in {"tickDrain", "tickSkipped"} /\ ~lastSessionId)
              => /\ last'.op = "tickSkipped"
                 /\ changedFiles' = changedFiles
                 /\ syncs' = syncs
                 /\ isSyncing' = isSyncing) ]_vars

\* A tick that found pending entries, no sync running and no session id.
C17_Witness ==
    /\ last.op = "tickSkipped"
    /\ ~lastSessionId
    /\ ~isSyncing
    /\ filesToSync # {}

\* C18: when the read of a file's content or mtime fails during a
\* classification, checkFile ends without an error reaching its caller: the
\* file's metadata in memory and in the store and the pending change set are
\* as before, the result is "not changed", and the path is no longer in
\* processingFiles.
C18_ReadFailureIsSkipped ==
    [][ last'.op = "readFail"
          => /\ fileHashes' = fileHashes
             /\ stored' = stored
             /\ changedFiles' = changedFiles
             /\ ~last'.info.changed
             /\ last'.path \notin processingFiles'
             /\ BagCardinality(checks') = BagCardinality(checks) - 1 ]_vars

\* The read of a tracked, queued file has just failed: the file was deleted
\* after its check began.
C18_Witness ==
    /\ last.op = "readFail"
    /\ fsContent[last.path] = Absent
    /\ fileHashes[last.path] # NoMeta
    /\ changedFiles[last.path] # NoMeta

\* C19: getWorkspaceLastSyncTime is 0 for every workspace at first; the
\* step that completes a save under workspace w sets w's lastSync to the
\* time of the save (Date.now() inside the call, not earlier than the call
\* began), and every other step, a deleteFileMetadata or a
\* clearFileMetadataForWorkspace or a save under another workspace, leaves
\* w's lastSync as it was. So lastSync is 0 for a workspace never written
\* and at least the time of the latest save otherwise.
C19_SaveRefreshesLastSync ==
    /\ \A w \in Workspaces : getWorkspaceLastSyncTime(w) = 0
    /\ [][ \A w \in Workspaces :
            IF last'.op = "saveFileMetadataDone" /\ last'.info.workspaceFolder = w
            THEN /\ getWorkspaceLastSyncTime(w)' = now'
                 /\ getWorkspaceLastSyncTime(w)' >= storeCall.callTime
                 /\ storeCall.callTime >= StartTime
            ELSE getWorkspaceLastSyncTime(w)' = getWorkspaceLastSyncTime(w) ]_vars

\* A record was deleted from a workspace whose latest save took place after
\* the clock had advanced, while another workspace was never written.
C19_Witness ==
    /\ last.op = "deleteFileMetadata"
    /\ last.info.found
    /\ getWorkspaceLastSyncTime(last.info.workspaceFolder) > StartTime
    /\ \E w \in Workspaces :
          /\ getStorageKey(w) \notin DOMAIN globalState
          /\ getWorkspaceLastSyncTime(w) = 0

\* The number of records of filePath under workspaceFolder.
C20_RecordCount(filePath, workspaceFolder) ==
    LET allMetadata == getAllFileMetadataByKey(getStorageKey(workspaceFolder))
    IN  Cardinality({ i \in 1..Len(allMetadata) : allMetadata[i].path = filePath })

\* The records under workspaceFolder of the paths other than filePath.
C20_OtherRecords(filePath, workspaceFolder) ==
    SelectSeq(getAllFileMetadataByKey(getStorageKey(workspaceFolder)),
              LAMBDA item : item.path # filePath)

\* C20: under save, delete and clear calls that do not overlap, the store
\* holds at most one record per workspace and path; getFileMetadata returns
\* the record saved last for the path under the workspace, and nothing if it
\* was deleted or cleared since; a delete changes the records of no other
\* path or workspace, a clear those of no other workspace.
C20_OneRecordPerPath ==
    /\ [](\A w \in Workspaces, p \in Paths :
            /\ C20_RecordCount(p, w) <= 1
            /\ getFileMetadata(p, w) = saved[w][p])
    /\ [][ \A w \in Workspaces :
            /\ (last'.op = "deleteFileMetadata"
                 => \A p \in Paths :
                      (w = last'.info.workspaceFolder /\ p = last'.path)
                         => C20_OtherRecords(p, w)' = C20_OtherRecords(p, w))
            /\ ((/\ last'.op \in {"deleteFileMetadata", "clearFileMetadataForWorkspace"}
                 /\ w # last'.info.workspaceFolder)
                 => getAllFileMetadataByKey(getStorageKey(w))'
                       = getAllFileMetadataByKey(getStorageKey(w))) ]_vars

\* A record that had been saved twice was deleted, while the other path of
\* its workspace and the same path of another workspace have records.
C20_Witness ==
    /\ last.op = "deleteFileMetadata"
    /\ last.info.found
    /\ getFileMetadata(last.path, last.info.workspaceFolder) = NoRecord
    /\ \E p \in Paths \ {last.path} :
          getFileMetadata(p, last.info.workspaceFolder) # NoRecord
    /\ \E w \in Workspaces \ {last.info.workspaceFolder} :
          getFileMetadata(last.path, w) # NoRecord

\* C28 (as claimed): a retry that fires right after an attempt failed with a
\* retryable error and a retry count below the maximum starts an attempt
\* whose batch holds the files of the failed batch.
C28_RetryUploadsFailedBatch ==
    [][ (/\ last.op = "syncFailed"
         /\ shouldRetry(last.info.message)
         /\ last.info.retries < MAX_SYNC_RETRIES
         /\ last'.op \in {"retryDrain", "retrySkipped"})
          => (/\ last'.op = "retryDrain"
              /\ last.batch \subseteq last'.batch
              /\ \E s \in BagToSet(syncs') : s.batch = last'.batch) ]_vars

\* C29 (as claimed): the classification that a file event starts on a file
\* whose batch failed or was dropped puts the file back into the pending
\* change set.
C29_RedetectedAfterFailure ==
    [][ (/\ last'.op = "classify"
         /\ last'.info.origin \in {"timer", "save"}
         /\ last'.info.givenUp)
          => changedFiles'[last'.path] # NoMeta ]_vars

\* The needs-sync condition of a classification, on the record the
\* classification found and the mtime it read.
C30_NeedsSync(existingMetadata, currentMtime, workspaceLastSync) ==
    \/ existingMetadata.lastSynced = 0
    \/ existingMetadata.lastSynced < currentMtime
    \/ workspaceLastSync < currentMtime

\* C30 (as claimed): after a classification the file is in the pending
\* change set if its lastSynced is absent, or is older than the file's
\* mtime, or the workspace's last sync time is older than that mtime; and
\* otherwise the classification leaves the file's pending entry as it was.
C30_QueuedIffNeedsSync ==
    [][ last'.op = "classify"
          => LET p == last'.path
                 metadata == last'.info.metadata
             IN  IF C30_NeedsSync(last'.info.existingMetadata, metadata.lastModified,
                                  wsLastSync)
                 THEN changedFiles'[p] # NoMeta
                 ELSE changedFiles'[p] = changedFiles[p] ]_vars

\* --------------------------------------------------------------- C24 .. C27
C24_Parts == split(normalizedPath, "/")
C24_DirPattern == SubSeq(pattern, 1, Len(pattern) - 1)
C24_Literal(text) == ~includes(text, "*") /\ ~includes(text, "/") /\ text # <<>>

C25_RootPattern == Tail(pattern)
C25_Parts == split(normalizedPath, "/")

\* C25: a pattern that starts with "/" matches a relative path only when
\* the leading portions of the path match the pattern text: neither the
\* name at a deeper level nor a path whose first portion is another name.
C25_RootPatternIsAnchored ==
    (handlerPc = "done" /\ startsWith(pattern, <<"/">>) /\ ~endsWith(pattern, <<"/">>)
        /\ matched) =>
        \E i \in 1..Len(C25_Parts) :
            minimatch(join(SubSeq(C25_Parts, 1, i), "/"), C25_RootPattern)

C26_Parts == split(normalizedPath, "/")

\* C26: a pattern without "/" matches a relative path exactly when the
\* basename or some portion of the path matches the glob as a whole, and
\* an empty pattern or an empty path never matches.
C26_FilenamePatternMatchesWholePortion ==
    (handlerPc = "done" /\ ~includes(pattern, "/")) =>
        (matched <=>
            /\ pattern # <<>>
            /\ normalizedPath # <<>>
            /\ \/ minimatch(basename(normalizedPath), pattern)
               \/ \E i \in 1..Len(C26_Parts) : minimatch(C26_Parts[i], pattern))

C27_Lines == split(gitignoreContent, "\n")
C27_Text(line) == IF Head(trim(line)) = "!" THEN Tail(trim(line)) ELSE trim(line)
C27_Excludes(line) ==
    /\ trim(line) # <<>>
    /\ Head(trim(line)) # "#"
    /\ matchesPattern(normalizedPath, C27_Text(line))

\* C27: a path is ignored exactly when some line of the file excludes it,
\* where a line "!text" excludes what the line "text" excludes: the "!" is
\* dropped, and no line takes a path out again, wherever it stands.
C27_NegationIsExclusion ==
    (handlerPc = "done" /\ gitignoreContent # <<>>) =>
        (ignored <=> \E i \in 1..Len(C27_Lines) : C27_Excludes(C27_Lines[i]))

\* C27 witness: the only line that matches "a/b" is the negation line "!a",
\* and the path is ignored.
C27_Witness ==
    /\ handlerPc = "done"
    /\ gitignoreContent = <<"b", "/", "\n", "!", "a">>
    /\ normalizedPath = <<"a", "/", "b">>
    /\ ignored

\* --------------------------------------------------------------- C21 .. C23
\* C21: context assembly with maxImportDepth 0, or with import resolution
\* switched off, returns the primary file alone: importedFiles is empty.
C21_DepthZeroIsPrimaryOnly ==
    (context.op = "getCodeContextForLLM"
        /\ (context.maxImportDepth = 0 \/ ~context.resolveImports)) =>
        /\ context.primaryFile = project.primary
        /\ context.importedFiles = <<>>

\* C21 witness: the primary file imports "./x", x.js exists, and the
\* context assembled with depth 0 holds no imported file.
C21_Witness ==
    /\ context.op = "getCodeContextForLLM"
    /\ context.resolveImports
    /\ context.maxImportDepth = 0
    /\ project.primary = PathM
    /\ project.statements = << Import(<<".", "/", "x">>) >>
    /\ PathXjs \in project.exists
    /\ context.importedFiles = <<>>

C22_BaseDir == dirname(project.primary)
\* The files an import of importPath may stand for: the path itself, the
\* path with an extension, the index file of the directory.
C22_Targets(importPath) ==
    { f \in project.exists :
        \/ f = resolve(C22_BaseDir, importPath)
        \/ \E i \in 1..Len(JsExtensions) :
              \/ f = resolve(C22_BaseDir, importPath \o JsExtensions[i])
              \/ f = resolve(C22_BaseDir, importPath \o Index \o JsExtensions[i]) }
C22_Local == { i \in 1..Len(project.statements) : isLocalImport(project.statements[i].path) }

\* C22: for an ECMAScript file the resolver returns no path twice; every
\* path it returns is a target of some relative import of the file, so
\* package imports and imports without target give none; every relative
\* import with a target is resolved to one of its targets; and a file whose
\* relative imports all name the same path yields exactly one entry.
C22_RelativeImportResolvesOnce ==
    (context.op = "resolveImports" /\ project.languageId = "javascript") =>
        LET result == context.importPaths
        IN  /\ \A i, j \in 1..Len(result) : result[i] = result[j] => i = j
            /\ \A i \in 1..Len(result) :
                   \E k \in C22_Local : result[i] \in C22_Targets(project.statements[k].path)
            /\ \A k \in C22_Local :
                   C22_Targets(project.statements[k].path) # {} =>
                       \E i \in 1..Len(result) :
                           result[i] \in C22_Targets(project.statements[k].path)
            /\ \A k \in C22_Local :
                   (/\ C22_Targets(project.statements[k].path) # {}
                    /\ \A n \in C22_Local :
                           project.statements[n].path = project.statements[k].path)
                       => Len(result) = 1

\* C22 witness: "./x" is imported and required, x.js is the only target,
\* and the resolver has returned x.js once.
C22_Witness ==
    /\ context.op = "resolveImports"
    /\ project.primary = PathM
    /\ project.statements = << Import(<<".", "/", "x">>), Require(<<".", "/", "x">>) >>
    /\ PathXjs \in project.exists
    /\ PathXts \notin project.exists
    /\ PathXindex \notin project.exists
    /\ context.importPaths = << PathXjs >>

\* The directories from dir up to the root.
RECURSIVE C23_Ancestors(_)
C23_Ancestors(dir) ==
    IF dir = <<"/">> THEN { <<>> } ELSE {dir} \cup C23_Ancestors(dirname(dir))
C23_LibraryRoots == { NodeModules, <<"l", "i", "b">> }
C23_InLibrary(importPath) ==
    { f \in project.exists :
        \E dir \in C23_Ancestors(dirname(project.primary)), root \in C23_LibraryRoots :
            f = dir \o <<"/">> \o root \o <<"/">> \o importPath }

\* C23: for a Solidity file, a package-style import that does not exist
\* relative to the directory of the file but exists under a dependency
\* library root of that directory or of one of its parents is resolved to
\* that file.
C23_PackageImportFoundInLibraryRoot ==
    (context.op = "resolveImports" /\ project.languageId = "solidity") =>
        \A k \in 1..Len(project.statements) :
            LET importPath == project.statements[k].path
            IN  (/\ project.statements[k].kind = "import"
                 /\ ~isLocalImport(importPath)
                 /\ ~existsSync(project.exists, resolve(dirname(project.primary), importPath))
                 /\ C23_InLibrary(importPath) # {})
                    => \E i \in 1..Len(context.importPaths) :
                           context.importPaths[i] \in C23_InLibrary(importPath)

\* --------------------------------------------------------------- C32, C40
\* The files that the imports of filePath resolve to and that can be read.
C32_Imports(filePath) ==
    LET importPaths == resolveImports(project.exists, filePath, getText(project, filePath),
                                      IF filePath = project.primary THEN project.languageId
                                      ELSE languageIdOf(filePath))
    IN  { importPaths[i] : i \in 1..Len(importPaths) } \cap project.exists
\* The files at most depth import edges away from the primary file.
RECURSIVE C32_Within(_)
C32_Within(depth) ==
    IF depth = 0 THEN {project.primary}
    ELSE C32_Within(depth - 1) \cup UNION { C32_Imports(f) : f \in C32_Within(depth - 1) }

\* C32: for every import graph, cyclic ones too, and every maxImportDepth,
\* the context getCodeContextForLLM returns holds in importedFiles neither
\* the primary file nor a path twice nor a file that is more than
\* maxImportDepth import edges away from the primary file.
C32_BoundedCycleSafeExpansion ==
    context.op = "getCodeContextForLLM" =>
        LET files == context.importedFiles
            within == C32_Within(context.maxImportDepth)
        IN  /\ \A i \in 1..Len(files) : files[i] # project.primary
            /\ \A i, j \in 1..Len(files) : files[i] = files[j] => i = j
            /\ { files[i] : i \in 1..Len(files) } \subseteq within

\* C32 witness: the primary file imports x, x and y import each other and x
\* requires the primary file; with depth 2 the context holds x and y once.
C32_Witness ==
    /\ context.op = "getCodeContextForLLM"
    /\ context.maxImportDepth = 2
    /\ project.primary = PathM
    /\ project.statements = << Import(<<".", "/", "x">>) >>
    /\ project.exists = {PathM, PathXjs, PathY}
    /\ context.importedFiles = << PathXjs, PathY >>

\* C40: with maxImportDepth d >= 1 the context holds every readable file
\* that is at most d resolvable imports away from the primary file, in
\* whatever order the imports stand and by however many chains a file is
\* reached.
C40_DepthBoundedCompleteness ==
    (context.op = "getCodeContextForLLM" /\ context.resolveImports
        /\ context.maxImportDepth >= 1) =>
        C32_Within(context.maxImportDepth) \ {project.primary}
            \subseteq { context.importedFiles[i] : i \in 1..Len(context.importedFiles) }

\* -------------------------------------------------------------------- C34
\* C34: the coordinator is always in exactly one of the states Idle (no
\* attempt running, no retry scheduled), Syncing (an attempt running, no
\* retry scheduled) and Retrying (one retry scheduled, no attempt running):
\* no attempt runs while a retry is scheduled, at most one retry timer is
\* outstanding and the retry counter stays within 0..MAX_SYNC_RETRIES.
C34_IdleSyncingOrRetrying ==
    /\ retryTimers <= 1
    /\ ~(retryTimers > 0 /\ isSyncing)
    /\ syncRetryCount \in 0..MAX_SYNC_RETRIES

\* -------------------------------------------------------------------- C31
\* C31 (as claimed): when a successful batch has been acknowledged, every
\* file of the batch that is still tracked has a lastSynced that is set,
\* in the in-memory map and in the store, and the retry counter is 0.
C31_AcknowledgementCoversBatch ==
    last.op = "syncDone" =>
        /\ syncRetryCount = 0
        /\ \A p \in last.batch :
              fileHashes[p] # NoMeta =>
                  /\ fileHashes[p].lastSynced # 0
                  /\ stored[p] # NoMeta
                  /\ stored[p].lastSynced # 0

\* -------------------------------------------------------------------- C35
\* C35: a step of the acknowledgement loop leaves a file of the batch alone
\* when the file has no record in fileHashes or no workspace folder holds
\* it: it gets no record in memory or in the store, and a record it has is
\* not changed. A file whose records handleFileDelete removed while the
\* upload was in flight therefore has no record after the acknowledgement.
C35_UpdateLastSyncedNoOp ==
    [][ last'.op \in {"updateLastSynced", "syncDone"} =>
          \A p \in last'.batch :
              (fileHashes[p] = NoMeta \/ workspaceFolders = {}) =>
                  /\ fileHashes'[p] = fileHashes[p]
                  /\ stored'[p] = stored[p] ]_vars

\* A batch is acknowledged after the records of its file were removed by
\* handleFileDelete during the upload.
C35_Witness ==
    /\ last.op = "syncDone"
    /\ "a" \in last.batch
    /\ fileHashes["a"] = NoMeta
    /\ stored["a"] = NoMeta
    /\ workspaceFolders # {}

\* A batch is acknowledged after the workspace folder was removed: the
\* tracked file of the batch keeps its record without a lastSynced.
C35_WitnessNoFolder ==
    /\ last.op = "syncDone"
    /\ "b" \in last.batch
    /\ workspaceFolders = {}
    /\ fileHashes["b"] # NoMeta
    /\ fileHashes["b"].lastSynced = 0

\* -------------------------------------------------------------------- C36
\* C36 (as claimed, its second half): lastSynced is never stamped on a
\* record whose content version was not part of a successful upload: when
\* updateLastSynced has stamped the record of a file, the hash of the record
\* is the hash of a content the file had on disk while the upload of its
\* batch ran.
C36_StampOnlyUploadedVersion ==
    last.op = "updateLastSynced" =>
        \A s \in BagToSet(syncs) :
            (s.pc = "ack" /\ s.current = last.path) =>
                fileHashes[last.path].md5Hash
                    \in { calculateMD5(content) : content \in s.uploaded[last.path] }

\* -------------------------------------------------------------------- C39
\* C39 (as claimed): once the events on a tracked path have stopped, the
\* hash recorded for the path is eventually, and from then on, the hash of
\* the content the path has on disk, also when the timeout of an event fired
\* while an earlier classification of the path was in flight.
C39_TrailingEventNotLost ==
    <>[](\A p \in Paths : fileHashes[p].md5Hash = calculateMD5(fsContent[p]))

\* --------------------------------------------------------------- C37, C38
\* C37 (as claimed): once the store calls that were begun have completed,
\* every path whose last call was a save has its record in the array the
\* store holds for the workspace, also when the saves of two different
\* paths overlapped.
C37_NoLostUpdate ==
    calls = EmptyBag =>
        \A p \in Paths :
            saved[WorkspaceFolder][p] # NoRecord => findIndex(heldMetadata, p) > 0

\* C38 (as claimed): whenever no classification, acknowledgement or delete
\* handling is in flight, a path has a record in memory if and only if it has
\* one in the store, and the two have the same hash, lastModified and
\* lastSynced.
C38_MirrorConsistency ==
    calls = EmptyBag =>
        \A p \in Paths :
            LET index == findIndex(heldMetadata, p)
            IN  /\ fileHashes[p] # NoMeta <=> index > 0
                /\ index > 0 =>
                      /\ heldMetadata[index].md5Hash = fileHashes[p].md5Hash
                      /\ heldMetadata[index].lastModified = fileHashes[p].lastModified
                      /\ heldMetadata[index].lastSynced = fileHashes[p].lastSynced

\* -------------------------------------------------------------------- C33
\* The relative paths whose exclusion is decided.
DecidedPaths == { <<>>, <<"a">>, <<"a", ".", "b">>, <<"b">>, <<"b", "/", "a">> }

\* No event of the watcher is pending and no load is in flight.
GitignoreSettled == gitignoreEvents = <<>> /\ gitignoreLoads = EmptyBag

\* C33 (as claimed): once the watcher's events are handled, the exclusion
\* decisions for the workspace are those of the .gitignore as it is now: of
\* its patterns after it was written, and of no patterns when it is deleted,
\* missing or unreadable.
C33_PatternsFollowGitignore ==
    GitignoreSettled =>
        \A path \in DecidedPaths :
            isIgnored(path, gitignorePatterns) =
                IF gitignoreFile.exists /\ gitignoreFile.readable
                THEN isIgnored(path, parseGitignoreContent(gitignoreFile.content))
                ELSE FALSE

====
